---- MODULE Spec2Model ----
(***************************************************************************)
(* Model of the 10-K document segmentation and chunk-orchestration engine  *)
(* of src/proto-3/10-k_modified.py (class TenKProcessor): boundary         *)
(* detection, chunk planning, the shrink-and-retry chunk processor, the    *)
(* chunk queue of process_with_gemini and the incremental combiner.        *)
(*                                                                         *)
(* Text is modelled by what the code reads of it: a document is its length *)
(* and the offsets at which a paragraph break ("\n\n") starts; a substring *)
(* of the document is the half-open interval [lo, hi) of offsets it was    *)
(* cut from, and Python's slice rules (negative and out-of-range indices)  *)
(* are applied to such intervals by Slice.  Strings the code builds or     *)
(* compares (titles, chunk ids, section names) are records whose lengths   *)
(* are computed as Python's len would.                                     *)
(***************************************************************************)
EXTENDS Integers, Sequences, FiniteSets, TLC

VARIABLES
    document_content,     \* [len, breaks]: the filing text
    boundaries,           \* result of detect_section_boundaries
    max_input_tokens,     \* create_processing_chunks argument
    max_output_tokens,    \* create_processing_chunks argument
    chunks,               \* result of create_processing_chunks
    processing_chunks,    \* result of extract_sections_dynamic
    plan_pc,              \* which of the two planner entry points have run
    candidates,           \* the matches of all strategies, as the strategy loop appends them
    det_pc,               \* "input" | "detected" ("off" outside the detector's specification)
    max_tokens_per_chunk, \* constructor argument: the ceiling on a prompt's estimated tokens
    pc,                   \* position of process_with_gemini / process_chunk_with_backtrack
    chunk_queue,          \* process_with_gemini: chunks still to process
    all_results,          \* process_with_gemini: one entry per processed chunk
    completed_sections,   \* process_with_gemini: names the model reported as completed
    chunk_num,            \* process_with_gemini: number of chunks popped so far
    current_chunk,        \* process_with_gemini: the chunk popped from the queue
    attempt_chunk,        \* process_chunk_with_backtrack: its local current_chunk
    retry_count,          \* process_chunk_with_backtrack: its retry counter
    result,               \* what process_chunk_with_backtrack returned
    final_json,           \* what combine_incremental_results returned
    output,               \* what process_with_gemini returned
    now,                  \* the wall clock read by datetime.now()
    combine_runs,         \* the documents combine_incremental_results has returned so far
    history,              \* observation of the run: counters the claims speak about
    task_queue,           \* batch driver: submitted tasks no worker has taken yet
    worker,               \* batch driver: each worker thread's position and task
    file_lock,            \* batch driver: the holder of self.file_lock, 0 when free
    written,              \* batch driver: the files whose output JSON was saved
    stats                 \* batch driver: self.stats counters

docVars == <<document_content, boundaries>>

planVars == <<max_input_tokens, max_output_tokens, chunks, processing_chunks, plan_pc>>

detVars == <<candidates, det_pc>>

pipeVars == <<max_tokens_per_chunk, pc, chunk_queue, all_results, completed_sections,
              chunk_num, current_chunk, attempt_chunk, retry_count, result, final_json,
              output, now, combine_runs, history>>

batchVars == <<task_queue, worker, file_lock, written, stats>>

vars == <<docVars, planVars, detVars, pipeVars, batchVars>>

----------------------------------------------------------------------------
(* Bounds of the model *)

MaxBoundaries == 3

MaxMatches == 3

\* answers of the model that report partial progress, per filing
MaxRequeues == 1

\* chunk results handed to the combiner
MaxResults == 2

\* runs of the combiner on one list of results
MaxRuns == 2

\* ticks of the wall clock
MaxClock == 2

----------------------------------------------------------------------------
(* Generic helpers *)

Min(a, b) == IF a < b THEN a ELSE b

Max(a, b) == IF a > b THEN a ELSE b

None == "None"

Range(s) == {s[i] : i \in 1..Len(s)}

\* Python s[a:b] on a string of length L: the pair of clipped indices.
SliceIndex(L, x) == IF x < 0 THEN Max(L + x, 0) ELSE Min(x, L)

EmptyText == [lo |-> 0, hi |-> 0]

TextLen(t) == t.hi - t.lo

\* t[a:b] where t is the document interval [t.lo, t.hi)
Slice(t, a, b) ==
    LET L  == TextLen(t)
        a1 == SliceIndex(L, a)
        b1 == SliceIndex(L, b)
    IN  IF a1 >= b1 THEN EmptyText ELSE [lo |-> t.lo + a1, hi |-> t.lo + b1]

WholeText(doc) == IF doc.len = 0 THEN EmptyText ELSE [lo |-> 0, hi |-> doc.len]

----------------------------------------------------------------------------
(* Token estimator: len(text) // 4 *)

estimate_token_count(length) == length \div 4

\* estimate_token_count(self.system_prompt): the prompt literal has 7724 characters
system_prompt_chars == 7724

system_prompt_tokens == estimate_token_count(system_prompt_chars)

\* the "1000 buffer" of create_processing_chunks
token_buffer == 1000

default_max_input_tokens == 750000

default_max_output_tokens == 8000

----------------------------------------------------------------------------
(* Titles: the cleaned header text plus the tags the planner and the       *)
(* shrink operation append to it.                                          *)

Title(base) == [base |-> base, large |-> FALSE, parts |-> 0]

\* title + ' [LARGE SECTION]'
TagLarge(t) == [t EXCEPT !.large = TRUE]

\* title + ' (Part 1)'
TagPart(t) == [t EXCEPT !.parts = @ + 1]

----------------------------------------------------------------------------
(* Chunk planner: create_processing_chunks *)

EmptyChunk(start) ==
    [start_pos |-> start, end_pos |-> 0, sections |-> <<>>,
     estimated_input_tokens |-> 0, estimated_output_tokens |-> 0]

next_boundary_pos(bs, i, doc) ==
    IF i + 1 <= Len(bs) THEN bs[i + 1].position ELSE doc.len

\* len(document_content[boundary['position']:next_boundary_pos]) // 4
section_tokens(bs, i, doc) ==
    estimate_token_count(
        TextLen(Slice(WholeText(doc), bs[i].position, next_boundary_pos(bs, i, doc))))

\* a sign slip: the reservation added to the budget instead of taken from it
available_tokens_added(max_in) == max_in + system_prompt_tokens + token_buffer

available_tokens(max_in) == max_in - system_prompt_tokens - token_buffer

\* the large-section test against the whole available budget instead of 80%
IsLargeSection_of_whole_budget(tokens, max_in) == tokens > available_tokens(max_in)

\* section_tokens > available_tokens * 0.8
IsLargeSection(tokens, max_in) == 5 * tokens > 4 * available_tokens(max_in)

\* estimated_output_tokens is section_tokens * 0.1; the model keeps it in
\* tenths of a token, so the tenths of a section are its token count.
\* the input test with >= for >: a section that fills the budget exactly is
\* taken to exceed it
would_exceed_input_at_limit(cur, tokens, max_in) ==
    cur.estimated_input_tokens + tokens >= available_tokens(max_in)

would_exceed_input(cur, tokens, max_in) ==
    cur.estimated_input_tokens + tokens > available_tokens(max_in)

would_exceed_output(cur, tokens, max_out) ==
    cur.estimated_output_tokens + tokens > 10 * max_out

PlannedSection(b, endp, tokens, title) ==
    [item_number |-> b.item_number, title |-> title, position |-> b.position,
     end_position |-> endp, estimated_tokens |-> tokens, confidence |-> b.confidence]

\* one iteration of the for loop: st = [chunks, current_chunk]
PlanStep(st, bs, i, doc, max_in, max_out) ==
    LET b      == bs[i]
        nextp  == next_boundary_pos(bs, i, doc)
        tokens == section_tokens(bs, i, doc)
        cur    == st.current_chunk
        flushed == IF cur.sections # <<>>
                   THEN Append(st.chunks, [cur EXCEPT !.end_pos = b.position])
                   ELSE st.chunks
    IN  IF IsLargeSection(tokens, max_in)
        THEN [chunks |-> Append(flushed,
                  [start_pos |-> b.position, end_pos |-> nextp,
                   sections |-> <<PlannedSection(b, nextp, tokens, TagLarge(b.title))>>,
                   estimated_input_tokens |-> tokens,
                   estimated_output_tokens |-> tokens]),
              current_chunk |-> EmptyChunk(nextp)]
        ELSE LET exceed == would_exceed_input(cur, tokens, max_in)
                           \/ would_exceed_output(cur, tokens, max_out)
                 base   == IF exceed THEN EmptyChunk(b.position) ELSE cur
             IN  [chunks |-> IF exceed THEN flushed ELSE st.chunks,
                  current_chunk |->
                      [base EXCEPT
                          !.sections = Append(@, PlannedSection(b, nextp, tokens, b.title)),
                          !.estimated_input_tokens = @ + tokens,
                          !.estimated_output_tokens = @ + tokens]]

RECURSIVE PlanLoop(_, _, _, _, _, _)
PlanLoop(st, bs, i, doc, max_in, max_out) ==
    IF i > Len(bs) THEN st
    ELSE PlanLoop(PlanStep(st, bs, i, doc, max_in, max_out), bs, i + 1, doc, max_in, max_out)

\* the planner without its final append: the running chunk is never added
create_processing_chunks_without_last(doc, bs, max_in, max_out) ==
    PlanLoop([chunks |-> <<>>, current_chunk |-> EmptyChunk(0)],
             bs, 1, doc, max_in, max_out).chunks

create_processing_chunks(doc, bs, max_in, max_out) ==
    LET st == PlanLoop([chunks |-> <<>>, current_chunk |-> EmptyChunk(0)],
                       bs, 1, doc, max_in, max_out)
    IN  IF st.current_chunk.sections # <<>>
        THEN Append(st.chunks, [st.current_chunk EXCEPT !.end_pos = doc.len])
        ELSE st.chunks

----------------------------------------------------------------------------
(* extract_sections_dynamic, given the detector's result *)

ChunkId(n) == [base |-> n, suffix |-> <<>>]

PseudoChunk(doc) ==
    [content |-> WholeText(doc),
     sections |-> <<[item_number |-> "ALL", title |-> Title("Complete Document")]>>,
     chunk_id |-> ChunkId(1)]

ProcessingChunk(doc, c, i) ==
    [chunk_id |-> ChunkId(i),
     content |-> Slice(WholeText(doc), c.start_pos, c.end_pos),
     sections |-> c.sections,
     estimated_input_tokens |-> c.estimated_input_tokens,
     estimated_output_tokens |-> c.estimated_output_tokens,
     start_pos |-> c.start_pos,
     end_pos |-> c.end_pos]

extract_sections_dynamic(doc, bs) ==
    IF bs = <<>>
    THEN <<PseudoChunk(doc)>>
    ELSE LET cs == create_processing_chunks(doc, bs, default_max_input_tokens,
                                            default_max_output_tokens)
         IN  [i \in 1..Len(cs) |-> ProcessingChunk(doc, cs[i], i)]

----------------------------------------------------------------------------
(* Lengths of the strings the prompt is built from *)

\* len(s) of the item numbers, titles and words of the model
StrLen(s) ==
    CASE s = ""                  -> 0
      [] s \in {"1", "2", "3", "7"} -> 1
      [] s \in {"1A", "7A", "7a", "15", "99"} -> 2
      [] s = "ALL"               -> 3
      [] s \in {"None", "Item", "item"} -> 4
      [] s = "Business"          -> 8
      [] s = "Risk Factors"      -> 12
      [] s = "Properties"        -> 10
      [] s = "Exhibits"          -> 8
      [] s = "Market Risk"       -> 11
      [] s = "Legal Proceedings" -> 17
      [] s = "Complete Document" -> 17
      [] s \in {"PART I", "Part I"} -> 6

\* title, ' [LARGE SECTION]' and ' (Part 1)' tags included
TitleLen(t) == StrLen(t.base) + (IF t.large THEN 16 ELSE 0) + 9 * t.parts

\* A section name as the model writes it in its JSON: "Item 1" is
\* [word |-> "Item", item |-> "1", title |-> ""], "Item 1. Business" has the
\* title "Business", and a name without an item prefix has word "".
SectionName(word, item, title) == [word |-> word, item |-> item, title |-> title]

NameLen(n) ==
    IF n.word = "" THEN StrLen(n.title)
    ELSE StrLen(n.word) + 1 + StrLen(n.item)
         + (IF n.title = "" THEN 0 ELSE 2 + StrLen(n.title))

\* f"Item {s['item_number']}"
ItemLabel(item_number) == SectionName("Item", item_number, "")

RECURSIVE DecimalDigits(_)
DecimalDigits(n) == IF n < 10 THEN 1 ELSE 1 + DecimalDigits(n \div 10)

\* len(f"{n:,}")
CommaLen(n) == DecimalDigits(n) + (DecimalDigits(n) - 1) \div 3

\* f"{chunk_id}_reduced", f"{chunk_id}_continued"
SuffixLen(x) == IF x = "reduced" THEN 8 ELSE 10

RECURSIVE SuffixesLen(_)
SuffixesLen(s) == IF s = <<>> THEN 0 ELSE SuffixLen(s[1]) + SuffixesLen(Tail(s))

ChunkIdLen(id) == DecimalDigits(id.base) + SuffixesLen(id.suffix)

AddSuffix(id, x) == [id EXCEPT !.suffix = Append(@, x)]

----------------------------------------------------------------------------
(* create_chunk_prompt: the model keeps the prompt's length, which is all   *)
(* the processor reads of it                                               *)

\* characters of the prompt template outside its replacement fields, with
\* company and year at their defaults
prompt_template_chars == 2708

\* the PREVIOUS PROCESSING CONTEXT block around the list of names
previous_context_chars == 165

SectionLineLen(section) ==
    4 + (IF section.item_number # None
         THEN 5 + StrLen(section.item_number) + 2 + TitleLen(section.title)
         ELSE TitleLen(section.title))

RECURSIVE SectionsTextLen(_)
SectionsTextLen(sections) ==
    IF sections = <<>> THEN 0
    ELSE SectionLineLen(sections[1])
         + (IF Len(sections) > 1 THEN 1 + SectionsTextLen(Tail(sections)) ELSE 0)

RECURSIVE PrevListLen(_)
PrevListLen(names) ==
    IF names = <<>> THEN 0
    ELSE 4 + NameLen(names[1])
         + (IF Len(names) > 1 THEN 1 + PrevListLen(Tail(names)) ELSE 0)

PreviousContextLen(is_first_chunk, previous_sections) ==
    IF previous_sections # <<>> /\ ~is_first_chunk
    THEN previous_context_chars + PrevListLen(previous_sections)
    ELSE 0

\* formatting the default 'Unknown' with ',' raises ValueError
create_chunk_prompt(chunk_data, is_first_chunk, previous_sections) ==
    IF "estimated_input_tokens" \notin DOMAIN chunk_data
    THEN [raised |-> "ValueError"]
    ELSE [raised |-> None,
          len |-> prompt_template_chars
                  + 3 * ChunkIdLen(chunk_data.chunk_id)
                  + CommaLen(chunk_data.estimated_input_tokens)
                  + SectionsTextLen(chunk_data.sections)
                  + PreviousContextLen(is_first_chunk, previous_sections)
                  + TextLen(chunk_data.content)]

----------------------------------------------------------------------------
(* reduce_chunk_size *)

\* half of the search window around the middle of a section
break_window == 100

\* section_content[i:i+2] == '\n\n'
IsBreakAt(text, i, breaks) ==
    LET two == Slice(text, i, i + 2)
    IN  TextLen(two) = 2 /\ two.lo \in breaks

\* the mid_point the for loop leaves
split_point(text, breaks) ==
    LET mid  == TextLen(text) \div 2
        hits == {i \in (mid - break_window)..(mid + break_window - 1) :
                    i < TextLen(text) /\ IsBreakAt(text, i, breaks)}
    IN  IF hits = {} THEN mid ELSE CHOOSE i \in hits : \A j \in hits : i <= j

\* sections[:len(sections)//2] or the first part of the single section
reduced_sections_of(chunk_data, breaks) ==
    LET sections == chunk_data.sections
    IN  IF Len(sections) > 1
        THEN SubSeq(sections, 1, Len(sections) \div 2)
        ELSE LET section == sections[1]
                 section_content ==
                     Slice(chunk_data.content, section.position, section.end_position)
             IN  <<[section EXCEPT
                       !.title = TagPart(@),
                       !.end_position = section.position
                                        + split_point(section_content, breaks)]>>

\* the subscripts that raise KeyError
reduce_raises(chunk_data) ==
    LET sections == chunk_data.sections
    IN  \/ "position" \notin DOMAIN sections[1]
        \/ "end_position" \notin DOMAIN sections[Max(1, Len(sections) \div 2)]
        \/ "start_pos" \notin DOMAIN chunk_data

reduce_chunk_size(chunk_data, breaks) ==
    IF reduce_raises(chunk_data)
    THEN [raised |-> "KeyError"]
    ELSE LET reduced_sections == reduced_sections_of(chunk_data, breaks)
             start_pos == reduced_sections[1].position
             end_pos   == reduced_sections[Len(reduced_sections)].end_position
             reduced_content ==
                 Slice(chunk_data.content, start_pos - chunk_data.start_pos,
                       end_pos - chunk_data.start_pos)
         IN  [raised |-> None,
              chunk |-> [chunk_data EXCEPT
                            !.sections = reduced_sections,
                            !.content = reduced_content,
                            !.estimated_input_tokens =
                                estimate_token_count(TextLen(reduced_content)),
                            !.chunk_id = AddSuffix(@, "reduced")]]

----------------------------------------------------------------------------
(* Values of Python's dynamic types that the code tells apart *)

PyNone == [type |-> "NoneType"]

PyList(items) == [type |-> "list", items |-> items]

\* a dict as the mapping from its keys to their values
PyDict(items) == [type |-> "dict", items |-> items]

\* an empty list counted as true
Truthy_of_any_list(v) == v.type # "NoneType"

\* bool(v): None and empty containers are false
Truthy(v) == v.type # "NoneType" /\ DOMAIN v.items # {}

\* d.get(k, default)
Get(d, k, default) == IF k \in DOMAIN d THEN d[k] ELSE default

\* the value of a variable that holds nothing yet
Nothing == [nothing |-> TRUE]

----------------------------------------------------------------------------
(* The remote model's answers, as the processor reads them *)

\* a JSON object with a processing_status and chunk_metadata.sections_completed
ModelJson(status, completed, sections) ==
    [processing_status |-> status,
     chunk_metadata |-> [sections_completed |-> completed],
     sections |-> PyDict(sections)]

\* an object that carries no processing_status field
ModelJsonNoStatus(sections) == [sections |-> PyDict(sections)]

\* an object with a processing_status and no chunk_metadata
ModelJsonNoMetadata(status, sections) ==
    [processing_status |-> status, sections |-> PyDict(sections)]

\* a completed answer that also carries a top-level "error" field
ModelJsonWithError(sections) ==
    [error |-> "none", processing_status |-> "completed",
     sections |-> PyDict(sections)]

\* status.startswith(prefix) on the status values of the model
StartsWith(status, prefix) ==
    CASE prefix = "completed" -> status \in {"completed", "completed_through_item_1"}
      [] prefix = "partial"   -> status \in {"partial_item_2"}
      [] prefix = "stopped"   -> status \in {"stopped_at_item_2"}

\* "Item N. Title" for a section of the chunk
TitledName(section) ==
    SectionName("Item", section.item_number, section.title.base)

\* the sections object of an answer: one entry per name
SectionsOf(names) == [n \in names |-> [content |-> "text"]]

----------------------------------------------------------------------------
(* Combiner: combine_incremental_results and determine_section_category *)

PartI == "Part I: Business and Risk Factors"

PartII == "Part II: Financial Information"

PartIII == "Part III: Governance"

PartIV == "Part IV: Exhibits and Schedules"

Categories == {PartI, PartII, PartIII, PartIV}

\* the table, keyed by the item number that follows "Item "
section_to_category ==
    [i \in {"1", "1A", "1B", "2", "3", "4"} |-> PartI]
    @@ [i \in {"5", "6", "7", "7A", "8", "9", "9A", "9B", "9C"} |-> PartII]
    @@ [i \in {"10", "11", "12", "13", "14"} |-> PartIII]
    @@ [i \in {"15", "16"} |-> PartIV]

\* re.search(r'Item\s+(\d+[A-C]?)', section_name, re.IGNORECASE).group(1):
\* the word matches in any case, the group is the item number as written
\* (digits and one optional letter a-c in either case); None without a match
item_match(section_name) ==
    IF section_name.word \in {"Item", "item"}
       /\ section_name.item \in {"1", "1A", "2", "3", "7", "7A", "7a", "15", "99"}
    THEN section_name.item
    ELSE None

determine_section_category(section_name) ==
    LET group == item_match(section_name)
    IN  IF group # None
        THEN Get(section_to_category, group, PartI)
        ELSE PartI

\* f"FAILED_{chunk_id}"
FailedId(chunk_id) == [prefix |-> "FAILED", id |-> chunk_id]

\* s.get('item_number', s.get('title', 'Unknown')) for a section record
section_attempted(s) ==
    IF "item_number" \in DOMAIN s THEN s.item_number
    ELSE IF "title" \in DOMAIN s THEN s.title
    ELSE "Unknown"

\* the metadata block as the function first builds it, the clock stamped into
\* the processing method as well
initial_metadata_stamped(chunk_results, timestamp) ==
    [processing_method |-> timestamp,
     chunks_processed |-> Len(chunk_results),
     timestamp |-> timestamp,
     failed_chunks |-> <<>>]

initial_metadata(chunk_results, timestamp) ==
    [processing_method |-> "incremental_with_backtracking",
     chunks_processed |-> Len(chunk_results),
     timestamp |-> timestamp,
     failed_chunks |-> <<>>]

\* the loop body keeping the first content written under a section key
CombineStep_first_write_wins(st, chunk_result) ==
    IF st.raised # None THEN st
    ELSE IF "error" \in DOMAIN chunk_result
    THEN LET sections == Get(chunk_result, "sections", PyList(<<>>))
         IN  IF sections.type = "dict" /\ DOMAIN sections.items # {}
             THEN [st EXCEPT !.raised = "AttributeError"]
             ELSE [st EXCEPT !.failed_chunks = Append(@,
                      [chunk_id |-> Get(chunk_result, "chunk_id", None),
                       error |-> chunk_result.error,
                       sections_attempted |->
                           [i \in DOMAIN sections.items |->
                               section_attempted(sections.items[i])]])]
    ELSE LET sections_data == Get(chunk_result, "sections", PyDict(<<>>)).items
         IN  [st EXCEPT !.categories =
                 [cat \in Categories |->
                     LET added == {n \in DOMAIN sections_data :
                                      determine_section_category(n) = cat}
                     IN  [n \in DOMAIN st.categories[cat] \cup added |->
                            IF n \in DOMAIN st.categories[cat]
                            THEN st.categories[cat][n]
                            ELSE sections_data[n]]]]

\* one iteration of the loop over chunk_results:
\* st = [raised, categories, failed_chunks]
CombineStep(st, chunk_result) ==
    IF st.raised # None THEN st
    ELSE IF "error" \in DOMAIN chunk_result
    THEN LET sections == Get(chunk_result, "sections", PyList(<<>>))
         IN  IF sections.type = "dict" /\ DOMAIN sections.items # {}
             THEN \* iterating a dict yields its keys, and a str has no get
                  [st EXCEPT !.raised = "AttributeError"]
             ELSE [st EXCEPT !.failed_chunks = Append(@,
                      [chunk_id |-> Get(chunk_result, "chunk_id", None),
                       error |-> chunk_result.error,
                       sections_attempted |->
                           [i \in DOMAIN sections.items |->
                               section_attempted(sections.items[i])]])]
    ELSE LET sections_data == Get(chunk_result, "sections", PyDict(<<>>)).items
         IN  [st EXCEPT !.categories =
                 [cat \in Categories |->
                     LET added == {n \in DOMAIN sections_data :
                                      determine_section_category(n) = cat}
                     IN  [n \in DOMAIN st.categories[cat] \cup added |->
                            IF n \in added THEN sections_data[n]
                            ELSE st.categories[cat][n]]]]

RECURSIVE CombineLoop(_, _)
CombineLoop(st, chunk_results) ==
    IF chunk_results = <<>> THEN st
    ELSE CombineLoop(CombineStep(st, chunk_results[1]), Tail(chunk_results))

RECURSIVE SumOver(_, _)
SumOver(f, S) ==
    IF S = {} THEN 0
    ELSE LET x == CHOOSE y \in S : TRUE IN f[x] + SumOver(f, S \ {x})

\* [raised |-> None, value |-> the document] or [raised |-> the exception];
\* timestamp is what datetime.now() returns during the call
combine_incremental_results(chunk_results, timestamp) ==
    LET st == CombineLoop([raised |-> None,
                           categories |-> [cat \in Categories |-> <<>>],
                           failed_chunks |-> <<>>], chunk_results)
        by_category == [cat \in Categories |-> Cardinality(DOMAIN st.categories[cat])]
        metadata == initial_metadata(chunk_results, timestamp)
    IN  IF st.raised # None THEN [raised |-> st.raised]
        ELSE [raised |-> None,
              value |->
                 [company |-> "COMPANY_NAME", year |-> "YEAR", FORM |-> "10-K",
                  CATEGORIES |-> st.categories,
                  PROCESSING_METADATA |->
                     [processing_method |-> metadata.processing_method,
                      chunks_processed |-> metadata.chunks_processed,
                      timestamp |-> metadata.timestamp,
                      failed_chunks |-> st.failed_chunks,
                      total_sections_extracted |-> SumOver(by_category, Categories),
                      sections_by_category |-> by_category]]]

----------------------------------------------------------------------------
(* process_chunk_with_backtrack, one action per step of its retry loop.    *)
(* pc = "attempt": at the loop test; pc = "call": the prompt passed the    *)
(* ceiling check and the model is being invoked; pc = "returned": the      *)
(* function returned result; pc = "fallback": an exception left the        *)
(* function, or the queue loop, and reached process_with_gemini's handler. *)

max_retries == 3

pcbVars == <<pc, attempt_chunk, retry_count, result, history>>

\* an exception that left the function `from`
Raised(from, exception) == [from |-> from, exception |-> exception]

queueVars == <<chunk_queue, all_results, completed_sections, chunk_num, current_chunk,
               final_json, output>>

fixedVars == <<docVars, planVars, detVars, batchVars, max_tokens_per_chunk, now,
              combine_runs>>

Return(res, h) ==
    /\ result' = res
    /\ pc' = "returned"
    /\ history' = h
    /\ UNCHANGED <<attempt_chunk, retry_count>>

\* the exception leaves process_chunk_with_backtrack
Propagate(exception, h) ==
    /\ pc' = "fallback"
    /\ history' = [h EXCEPT !.raised =
                       Append(@, Raised("process_chunk_with_backtrack", exception))]
    /\ UNCHANGED <<attempt_chunk, retry_count, result>>

\* the handler without its retry branch: the first exception is the result
Catch_without_retry(error, h) ==
    Return([success |-> FALSE, error |-> error, retry_count |-> retry_count], h)

\* "except Exception as e": shrink and retry, or return the failure
Catch(error, h) ==
    IF retry_count < max_retries - 1
    THEN LET r == reduce_chunk_size(attempt_chunk, document_content.breaks)
         IN  IF r.raised # None
             THEN Propagate(r.raised, h)
             ELSE /\ attempt_chunk' = r.chunk
                  /\ retry_count' = retry_count + 1
                  /\ pc' = "attempt"
                  /\ history' = h
                  /\ UNCHANGED result
    ELSE Return([success |-> FALSE, error |-> error, retry_count |-> retry_count], h)

\* the shrink step without "retry_count += 1"
Shrink_without_count(h) ==
    LET r == reduce_chunk_size(attempt_chunk, document_content.breaks)
    IN  IF r.raised # None
        THEN Catch(r.raised, h)
        ELSE /\ attempt_chunk' = r.chunk
             /\ pc' = "attempt"
             /\ history' = h
             /\ UNCHANGED <<retry_count, result>>

\* current_chunk = self.reduce_chunk_size(current_chunk); retry_count += 1; continue
\* inside the try block
Shrink(h) ==
    LET r == reduce_chunk_size(attempt_chunk, document_content.breaks)
    IN  IF r.raised # None
        THEN Catch(r.raised, h)
        ELSE /\ attempt_chunk' = r.chunk
             /\ retry_count' = retry_count + 1
             /\ pc' = "attempt"
             /\ history' = h
             /\ UNCHANGED result

\* the loop test fails: 'Failed after {max_retries} attempts'
GiveUp ==
    /\ pc = "attempt"
    /\ ~(retry_count < max_retries)
    /\ Return([success |-> FALSE, error |-> "Failed after 3 attempts",
               retry_count |-> retry_count], history)
    /\ UNCHANGED <<queueVars, fixedVars>>

\* the loop body without the ceiling check: every prompt is sent
Attempt_without_ceiling ==
    /\ pc = "attempt"
    /\ retry_count < max_retries
    /\ LET prompt == create_chunk_prompt(attempt_chunk, chunk_num = 1, completed_sections)
           h == [history EXCEPT !.attempts = @ + 1]
       IN  IF prompt.raised # None
           THEN Catch(prompt.raised, h)
           ELSE /\ pc' = "call"
                /\ history' = h
                /\ UNCHANGED <<attempt_chunk, retry_count, result>>
    /\ UNCHANGED <<queueVars, fixedVars>>

\* the loop body up to the model call: build the prompt, check the ceiling
Attempt ==
    /\ pc = "attempt"
    /\ retry_count < max_retries
    /\ LET prompt == create_chunk_prompt(attempt_chunk, chunk_num = 1, completed_sections)
           h == [history EXCEPT !.attempts = @ + 1]
       IN  IF prompt.raised # None
           THEN Catch(prompt.raised, h)
           ELSE IF estimate_token_count(prompt.len) > max_tokens_per_chunk
           THEN Shrink([h EXCEPT !.skips = @ + 1])
           ELSE /\ pc' = "call"
                /\ history' = h
                /\ UNCHANGED <<attempt_chunk, retry_count, result>>
    /\ UNCHANGED <<queueVars, fixedVars>>

Called(h, raised, answer) ==
    [h EXCEPT !.calls = @ + 1, !.all_raise = @ /\ raised, !.last_answer = answer]

\* self.model.generate_content(prompt) raises
ModelRaises ==
    /\ pc = "call"
    /\ Catch("model error", Called(history, TRUE, "raise"))
    /\ UNCHANGED <<queueVars, fixedVars>>

\* response.text is empty
ModelReturnsEmpty ==
    /\ pc = "call"
    /\ Catch("Empty response from Gemini", Called(history, FALSE, "empty"))
    /\ UNCHANGED <<queueVars, fixedVars>>

\* json.loads raises JSONDecodeError
ModelReturnsMalformed ==
    /\ pc = "call"
    /\ LET h == Called(history, FALSE, "malformed")
       IN  IF retry_count < max_retries - 1
           THEN Shrink(h)
           ELSE Return([success |-> FALSE,
                        error |-> "JSON decode error after 3 attempts",
                        raw_response |-> "text"], h)
    /\ UNCHANGED <<queueVars, fixedVars>>

\* the sections of the chunk the completed list does not name
remaining_sections_of(sections, completed) ==
    LET NotNamed(s) == ItemLabel(s.item_number) \notin Range(completed.items)
    IN  SelectSeq(sections, NotNamed)

\* an unrecognised status treated as no progress
AcceptAsIs_shrinking(json, h) == Shrink(h)

\* 'Unknown processing status': the parsed result is returned as it is
AcceptAsIs(json, h) ==
    Return([success |-> TRUE, result |-> json,
            completed_sections |-> PyList(<<>>),
            retry_count |-> retry_count], h)

\* what the function does with a parsed JSON object
OnJson(json, h) ==
    LET status    == Get(json, "processing_status", "unknown")
        completed == Get(Get(json, "chunk_metadata", <<>>), "sections_completed",
                         PyList(<<>>))
    IN  IF StartsWith(status, "completed")
        THEN Return([success |-> TRUE, result |-> json,
                     completed_sections |-> completed,
                     next_item |-> None, retry_count |-> retry_count], h)
        ELSE IF StartsWith(status, "partial") \/ StartsWith(status, "stopped")
        THEN IF Truthy(completed)
             THEN LET remaining == remaining_sections_of(attempt_chunk.sections, completed)
                  IN  IF remaining # <<>>
                      THEN Return([success |-> TRUE, result |-> json,
                                   completed_sections |-> completed,
                                   remaining_chunk |->
                                       [attempt_chunk EXCEPT
                                           !.sections = remaining,
                                           !.chunk_id = AddSuffix(@, "continued")],
                                   partial |-> TRUE,
                                   retry_count |-> retry_count], h)
                      ELSE Return([success |-> TRUE, result |-> json,
                                   completed_sections |-> completed,
                                   next_item |-> None,
                                   retry_count |-> retry_count], h)
             ELSE Shrink(h)
        ELSE AcceptAsIs(json, h)

----------------------------------------------------------------------------
(* The JSON objects the model answers with, for the chunk it was sent *)

AllLabels(chunk) ==
    [i \in 1..Len(chunk.sections) |-> ItemLabel(chunk.sections[i].item_number)]

FirstLabel(chunk) == <<ItemLabel(chunk.sections[1].item_number)>>

AllTitled(chunk) == {TitledName(chunk.sections[i]) : i \in 1..Len(chunk.sections)}

FirstTitled(chunk) == {TitledName(chunk.sections[1])}

JsonAnswers(chunk) ==
    {ModelJson("completed", PyList(AllLabels(chunk)), SectionsOf(AllTitled(chunk))),
     ModelJson("completed", PyNone, SectionsOf(AllTitled(chunk))),
     ModelJson("partial_item_2", PyList(<<>>), SectionsOf({})),
     ModelJson("partial_item_2", PyList(FirstLabel(chunk)), SectionsOf(FirstTitled(chunk))),
     ModelJson("partial_item_2", PyList(AllLabels(chunk)), SectionsOf(AllTitled(chunk))),
     ModelJson("partial_item_2", PyList(<<TitledName(chunk.sections[1])>>),
               SectionsOf(FirstTitled(chunk))),
     ModelJson("stopped_at_item_2", PyList(FirstLabel(chunk)),
               SectionsOf(FirstTitled(chunk))),
     ModelJson("in_progress", PyList(<<>>), SectionsOf(FirstTitled(chunk))),
     ModelJsonNoStatus(SectionsOf(FirstTitled(chunk))),
     ModelJsonNoMetadata("stopped_at_item_2", SectionsOf({})),
     ModelJsonWithError(SectionsOf(FirstTitled(chunk)))}

\* the answer makes the function return a remaining_chunk
ReportsPartialProgress(json, chunk) ==
    LET status    == Get(json, "processing_status", "unknown")
        completed == Get(Get(json, "chunk_metadata", <<>>), "sections_completed",
                         PyList(<<>>))
    IN  /\ StartsWith(status, "partial") \/ StartsWith(status, "stopped")
        /\ Truthy(completed)
        /\ remaining_sections_of(chunk.sections, completed) # <<>>

\* what the answer reports: "no_progress" for a partial_* or stopped_* status
\* with a sections_completed list that is empty or missing, "unknown_status"
\* for a status with none of the three prefixes or no status, "json" otherwise
AnswerKind(json) ==
    LET status == IF "processing_status" \in DOMAIN json
                  THEN json.processing_status ELSE "unknown"
        listed == IF "chunk_metadata" \in DOMAIN json
                  THEN json.chunk_metadata.sections_completed ELSE PyList(<<>>)
    IN  IF /\ status \in {"partial_item_2", "stopped_at_item_2"}
           /\ listed.type = "list"
           /\ listed.items = <<>>
        THEN "no_progress"
        ELSE IF status \in {"in_progress", "unknown"}
        THEN "unknown_status"
        ELSE "json"

\* response.text parses as a JSON object
ModelReturnsJson ==
    /\ pc = "call"
    /\ \E json \in JsonAnswers(attempt_chunk) :
          /\ ReportsPartialProgress(json, attempt_chunk) => history.requeues < MaxRequeues
          /\ OnJson(json, Called(history, FALSE, AnswerKind(json)))
    /\ UNCHANGED <<queueVars, fixedVars>>

----------------------------------------------------------------------------
(* process_with_gemini: the chunk queue, the combiner call and the fallback *)

NewHistory ==
    [attempts |-> 0, calls |-> 0, skips |-> 0, all_raise |-> TRUE, requeues |-> 0,
     raised |-> <<>>, submitted |-> <<>>, accepted |-> {}, last_answer |-> "none"]

\* steps 1 to 3 up to the loop: company and year stay at their defaults, and
\* extract_sections_dynamic never returns an empty list
Start ==
    /\ pc = "start"
    /\ processing_chunks' = extract_sections_dynamic(document_content, boundaries)
    /\ chunk_queue' = processing_chunks'
    /\ all_results' = <<>>
    /\ completed_sections' = <<>>
    /\ chunk_num' = 0
    /\ pc' = "loop"
    /\ UNCHANGED <<docVars, detVars, batchVars, max_input_tokens, max_output_tokens, chunks,
                   plan_pc,
                   max_tokens_per_chunk, now, combine_runs, current_chunk, attempt_chunk,
                   retry_count, result, final_json, output, history>>

\* chunk_queue.pop(0) and the call of process_chunk_with_backtrack
PopChunk ==
    /\ pc = "loop"
    /\ chunk_queue # <<>>
    /\ chunk_num' = chunk_num + 1
    /\ current_chunk' = Head(chunk_queue)
    /\ chunk_queue' = Tail(chunk_queue)
    /\ attempt_chunk' = Head(chunk_queue)
    /\ retry_count' = 0
    /\ history' = [history EXCEPT !.attempts = 0, !.calls = 0, !.skips = 0,
                                  !.submitted = Append(@, Head(chunk_queue).chunk_id),
                                  !.last_answer = "none"]
    /\ pc' = "attempt"
    /\ UNCHANGED <<fixedVars, all_results, completed_sections, result, final_json, output>>

failed_chunk_info ==
    [chunk_id |-> FailedId(current_chunk.chunk_id),
     error |-> result.error,
     sections |-> PyList(current_chunk.sections),
     raw_response |-> Get(result, "raw_response", "")]

\* the queue loop giving up on the first failed chunk: the failure entry is
\* recorded and the rest of the queue is dropped
HandleResult_dropping_queue ==
    /\ pc = "returned"
    /\ all_results' = Append(all_results,
                             IF result.success THEN result.result ELSE failed_chunk_info)
    /\ chunk_queue' = IF result.success THEN chunk_queue ELSE <<>>
    /\ pc' = "loop"
    /\ UNCHANGED <<fixedVars, chunk_num, current_chunk, attempt_chunk, retry_count, result,
                   final_json, output, completed_sections, history>>

\* the queue loop putting a remaining_chunk at the back of the queue
HandleResult_requeue_at_back ==
    /\ pc = "returned"
    /\ result.success
    /\ Get(result, "partial", FALSE)
    /\ "remaining_chunk" \in DOMAIN result
    /\ all_results' = Append(all_results, result.result)
    /\ completed_sections' = completed_sections \o result.completed_sections.items
    /\ chunk_queue' = Append(chunk_queue, result.remaining_chunk)
    /\ history' = [history EXCEPT !.requeues = @ + 1,
                                  !.accepted = @ \cup Range(attempt_chunk.sections)]
    /\ pc' = "loop"
    /\ UNCHANGED <<fixedVars, chunk_num, current_chunk, attempt_chunk, retry_count, result,
                   final_json, output>>

\* the body of the queue loop after the call
HandleResult ==
    /\ pc = "returned"
    /\ IF result.success
       THEN LET extension == Get(result, "completed_sections", PyList(<<>>))
            IN  /\ all_results' = Append(all_results, result.result)
                /\ IF extension.type = "NoneType"
                   THEN \* list.extend(None) raises TypeError
                        /\ pc' = "fallback"
                        /\ history' = [history EXCEPT !.raised =
                                           Append(@, Raised("list.extend", "TypeError"))]
                        /\ UNCHANGED <<completed_sections, chunk_queue>>
                   ELSE /\ completed_sections' = completed_sections \o extension.items
                        /\ IF Get(result, "partial", FALSE)
                              /\ "remaining_chunk" \in DOMAIN result
                           THEN /\ chunk_queue' = <<result.remaining_chunk>> \o chunk_queue
                                /\ history' = [history EXCEPT
                                      !.requeues = @ + 1,
                                      !.accepted = @ \cup Range(attempt_chunk.sections)]
                           ELSE /\ history' = [history EXCEPT
                                      !.accepted = @ \cup Range(attempt_chunk.sections)]
                                /\ UNCHANGED chunk_queue
                        /\ pc' = "loop"
       ELSE /\ all_results' = Append(all_results, failed_chunk_info)
            /\ pc' = "loop"
            /\ UNCHANGED <<completed_sections, chunk_queue, history>>
    /\ UNCHANGED <<fixedVars, chunk_num, current_chunk, attempt_chunk, retry_count, result,
                   final_json, output>>

\* the queue is empty: combine and return the JSON string
Combine ==
    /\ pc = "loop"
    /\ chunk_queue = <<>>
    /\ LET r == combine_incremental_results(all_results, now)
       IN  IF r.raised # None
           THEN /\ pc' = "fallback"
                /\ history' = [history EXCEPT !.raised =
                                   Append(@, Raised("combine_incremental_results", r.raised))]
                /\ UNCHANGED <<final_json, output>>
           ELSE /\ final_json' = r.value
                /\ output' = [type |-> "json", value |-> r.value]
                /\ pc' = "combined"
                /\ UNCHANGED history
    /\ UNCHANGED <<fixedVars, chunk_queue, all_results, completed_sections, chunk_num,
                   current_chunk, attempt_chunk, retry_count, result>>

\* process_full_document from the except clause: the model answers with text
FallbackReturns ==
    /\ pc = "fallback"
    /\ output' = [type |-> "text"]
    /\ pc' = "fallback_returned"
    /\ history' = [history EXCEPT !.all_raise = FALSE]
    /\ UNCHANGED <<fixedVars, chunk_queue, all_results, completed_sections, chunk_num,
                   current_chunk, attempt_chunk, retry_count, result, final_json>>

\* process_full_document from the except clause: the model raises or answers
\* with nothing, and the function re-raises
FallbackRaises ==
    /\ pc = "fallback"
    /\ pc' = "fallback_raised"
    /\ history' = [history EXCEPT !.raised =
                       Append(@, Raised("process_with_gemini", "Exception"))]
    /\ UNCHANGED <<fixedVars, chunk_queue, all_results, completed_sections, chunk_num,
                   current_chunk, attempt_chunk, retry_count, result, final_json, output>>

----------------------------------------------------------------------------
(* Variables a specification does not use keep these values *)

DetIdle == candidates = <<>> /\ det_pc = "off"

BatchIdle ==
    /\ task_queue = <<>>
    /\ worker = <<>>
    /\ file_lock = 0
    /\ written = {}
    /\ stats = [total_files |-> 0, processed_files |-> 0, failed_files |-> 0]

PlanIdle ==
    /\ max_input_tokens = default_max_input_tokens
    /\ max_output_tokens = default_max_output_tokens
    /\ chunks = <<>>
    /\ processing_chunks = <<>>
    /\ plan_pc = {}

default_max_tokens_per_chunk == 800000

QueueIdle ==
    /\ chunk_queue = <<>>
    /\ all_results = <<>>
    /\ completed_sections = <<>>
    /\ chunk_num = 0
    /\ current_chunk = Nothing
    /\ attempt_chunk = Nothing
    /\ retry_count = 0
    /\ result = Nothing
    /\ final_json = Nothing
    /\ output = Nothing
    /\ combine_runs = <<>>
    /\ history = NewHistory

PipeIdle ==
    /\ max_tokens_per_chunk = default_max_tokens_per_chunk
    /\ pc = "off"
    /\ now = 0
    /\ QueueIdle

----------------------------------------------------------------------------
(* Inputs of the planner specification *)

\* item numbers and cleaned titles of the headers, in document order
ItemOf == <<"1", "1A", "2", "3">>

TitleOf == <<"Business", "Risk Factors", "Properties", "Legal Proceedings">>

\* offsets of the first header: at the start of the text, or after a cover page
FirstPositions == {0, 300}

\* section lengths in characters: 50, 100 and 2,000 tokens, one section above
\* the default output budget (82,500 tokens) and one above 80% of the default
\* input budget (600,000 tokens)
SectionLens == {200, 400, 8000, 330000, 2400000}

InputBudgets == {1000, 3031, 5531, default_max_input_tokens}

OutputBudgets == {8, default_max_output_tokens}

RECURSIVE BoundariesAt(_, _, _)
BoundariesAt(first, lens, i) ==
    IF i > Len(lens) THEN <<>>
    ELSE <<[position |-> first, item_number |-> ItemOf[i], title |-> Title(TitleOf[i]),
            confidence |-> 8]>>
         \o BoundariesAt(first + lens[i], lens, i + 1)

RECURSIVE SumSeq(_)
SumSeq(s) == IF s = <<>> THEN 0 ELSE s[1] + SumSeq(Tail(s))

LenSeqs(n) == UNION {[1..k -> SectionLens] : k \in 1..n}

PlanInit ==
    /\ \E first \in FirstPositions, lens \in LenSeqs(MaxBoundaries) :
          /\ document_content = [len |-> first + SumSeq(lens), breaks |-> {}]
          /\ boundaries = BoundariesAt(first, lens, 1)
    /\ max_input_tokens \in InputBudgets
    /\ max_output_tokens \in OutputBudgets
    /\ chunks = <<>>
    /\ processing_chunks = <<>>
    /\ plan_pc = {}
    /\ DetIdle
    /\ PipeIdle
    /\ BatchIdle

Plan ==
    /\ "plan" \notin plan_pc
    /\ chunks' = create_processing_chunks(document_content, boundaries,
                                          max_input_tokens, max_output_tokens)
    /\ plan_pc' = plan_pc \cup {"plan"}
    /\ UNCHANGED <<docVars, detVars, pipeVars, batchVars, max_input_tokens, max_output_tokens,
                   processing_chunks>>

Extract ==
    /\ "extract" \notin plan_pc
    /\ processing_chunks' = extract_sections_dynamic(document_content, boundaries)
    /\ plan_pc' = plan_pc \cup {"extract"}
    /\ UNCHANGED <<docVars, detVars, pipeVars, batchVars, max_input_tokens, max_output_tokens,
                   chunks>>

PlanNext == Plan \/ Extract

PlanSpec == PlanInit /\ [][PlanNext]_vars

----------------------------------------------------------------------------
(* Claims about the planner *)

Garbled == [lo |-> -1, hi |-> -1]

\* the text two substrings of the document concatenate to
JoinText(a, b) ==
    IF a = EmptyText THEN b
    ELSE IF b = EmptyText THEN a
    ELSE IF a # Garbled /\ b # Garbled /\ a.hi = b.lo THEN [lo |-> a.lo, hi |-> b.hi]
    ELSE Garbled

RECURSIVE ConcatContents(_)
ConcatContents(cs) ==
    IF cs = <<>> THEN EmptyText
    ELSE JoinText(ConcatContents(SubSeq(cs, 1, Len(cs) - 1)), cs[Len(cs)].content)

IsDedicatedLargeChunk(c) == Len(c.sections) = 1 /\ c.sections[1].title.large

\* C3 (as claimed): with at least one boundary, the chunks returned by
\* extract_sections_dynamic start at offset 0, each ends where the next starts,
\* the last ends at the document length, and their contents concatenated in
\* order are the document.
C3_Reconstruction ==
    ("extract" \in plan_pc /\ boundaries # <<>>) =>
        /\ processing_chunks[1].start_pos = 0
        /\ \A i \in 1..(Len(processing_chunks) - 1) :
               processing_chunks[i].end_pos = processing_chunks[i + 1].start_pos
        /\ processing_chunks[Len(processing_chunks)].end_pos = document_content.len
        /\ ConcatContents(processing_chunks) = WholeText(document_content)

\* C5: every chunk create_processing_chunks returns, other than a dedicated
\* large-section chunk, has estimated_input_tokens <= max_input_tokens.
C5_InputBudget ==
    "plan" \in plan_pc =>
        \A i \in 1..Len(chunks) :
            ~IsDedicatedLargeChunk(chunks[i]) =>
                chunks[i].estimated_input_tokens <= max_input_tokens

\* a plan in which the input budget closed a chunk of two or more sections
C5_Witness ==
    /\ "plan" \in plan_pc
    /\ \E i \in 1..(Len(chunks) - 1) :
          /\ ~IsDedicatedLargeChunk(chunks[i])
          /\ ~IsDedicatedLargeChunk(chunks[i + 1])
          /\ Len(chunks[i].sections) >= 2
          /\ chunks[i].estimated_input_tokens + chunks[i + 1].sections[1].estimated_tokens
                 > available_tokens(max_input_tokens)

\* estimated tokens of the i-th section of the document
TokensOf(i) == section_tokens(boundaries, i, document_content)

NoLargeSection ==
    \A i \in 1..Len(boundaries) : ~IsLargeSection(TokensOf(i), max_input_tokens)

\* the input and output estimates of a chunk holding sections i..j are within
\* the available input budget and the output budget
RECURSIVE TokensFrom(_, _)
TokensFrom(i, j) == IF i > j THEN 0 ELSE TokensOf(i) + TokensFrom(i + 1, j)

Fits(i, j) ==
    /\ TokensFrom(i, j) <= available_tokens(max_input_tokens)
    /\ TokensFrom(i, j) <= 10 * max_output_tokens

\* the item numbers of the sections of a chunk
ItemsOfChunk(c) == [k \in 1..Len(c.sections) |-> c.sections[k].item_number]

RECURSIVE ItemsOfChunks(_)
ItemsOfChunks(cs) ==
    IF cs = <<>> THEN <<>> ELSE ItemsOfChunk(Head(cs)) \o ItemsOfChunks(Tail(cs))

\* C14: the planner packs greedily in document order.  A section joins the
\* running chunk exactly when both running estimates stay within the budgets:
\* a chunk of several sections is within both budgets, and a chunk closed
\* before a section that is not large would have exceeded a budget with it.
\* Hence, with no large section, a budget that fits all N sections yields one
\* chunk holding the N sections in order, and a budget that fits each section
\* but no two consecutive ones yields N chunks of one section each, in order.
C14_GreedyPacking ==
    "plan" \in plan_pc =>
        LET N == Len(boundaries)
            avail == available_tokens(max_input_tokens)
        IN  /\ ItemsOfChunks(chunks) = [i \in 1..N |-> boundaries[i].item_number]
            /\ \A k \in 1..Len(chunks) :
                   Len(chunks[k].sections) > 1 =>
                       /\ chunks[k].estimated_input_tokens <= avail
                       /\ chunks[k].estimated_output_tokens <= 10 * max_output_tokens
            /\ \A k \in 1..(Len(chunks) - 1) :
                   (/\ ~IsDedicatedLargeChunk(chunks[k])
                    /\ ~IsDedicatedLargeChunk(chunks[k + 1])) =>
                       LET first == chunks[k + 1].sections[1]
                       IN  \/ would_exceed_input(chunks[k], first.estimated_tokens,
                                                 max_input_tokens)
                           \/ would_exceed_output(chunks[k], first.estimated_tokens,
                                                  max_output_tokens)
            /\ (NoLargeSection /\ Fits(1, N)) =>
                   /\ Len(chunks) = 1
                   /\ Len(chunks[1].sections) = N
            /\ (/\ NoLargeSection
                /\ \A i \in 1..N : Fits(i, i)
                /\ \A i \in 1..(N - 1) : ~Fits(i, i + 1)) =>
                   /\ Len(chunks) = N
                   /\ \A i \in 1..N : ItemsOfChunk(chunks[i]) = <<boundaries[i].item_number>>

\* three sections that fit one at a time but not two at a time, planned as
\* three chunks
C14_Witness ==
    /\ "plan" \in plan_pc
    /\ Len(boundaries) = 3
    /\ NoLargeSection
    /\ \A i \in 1..3 : Fits(i, i)
    /\ \A i \in 1..2 : ~Fits(i, i + 1)
    /\ Len(chunks) = 3

\* the i-th section's estimate is above 80% of the available input budget
Oversized(i) == 5 * TokensOf(i) > 4 * available_tokens(max_input_tokens)

\* the chunk holds exactly the i-th section, tagged as large
HoldsAlone(c, i) ==
    /\ Len(c.sections) = 1
    /\ c.sections[1].item_number = boundaries[i].item_number
    /\ c.sections[1].position = boundaries[i].position
    /\ c.sections[1].title = [boundaries[i].title EXCEPT !.large = TRUE]
    /\ c.start_pos = boundaries[i].position
    /\ c.end_pos = next_boundary_pos(boundaries, i, document_content)

\* C24: a section whose estimate exceeds 80% of the available input budget is
\* never merged with its neighbours: the chunk before it ends with the section
\* before it, the section is a chunk of its own with the large-section tag on
\* its title, and the section after it starts the next chunk.  Hence no chunk
\* of two or more sections holds such a section.
C24_LargeSectionAlone ==
    "plan" \in plan_pc =>
        LET N == Len(boundaries)
        IN  /\ \A i \in 1..N :
                   Oversized(i) =>
                       \E k \in 1..Len(chunks) :
                           /\ HoldsAlone(chunks[k], i)
                           /\ i > 1 =>
                                  /\ k > 1
                                  /\ chunks[k - 1].sections[Len(chunks[k - 1].sections)]
                                         .item_number = boundaries[i - 1].item_number
                                  /\ chunks[k - 1].end_pos = boundaries[i].position
                           /\ i < N =>
                                  /\ k < Len(chunks)
                                  /\ chunks[k + 1].sections[1].item_number
                                         = boundaries[i + 1].item_number
                                  /\ chunks[k + 1].start_pos = boundaries[i + 1].position
            /\ \A k \in 1..Len(chunks) :
                   Len(chunks[k].sections) >= 2 =>
                       \A j \in 1..Len(chunks[k].sections) :
                           /\ ~chunks[k].sections[j].title.large
                           /\ 5 * chunks[k].sections[j].estimated_tokens
                                  <= 4 * available_tokens(max_input_tokens)

\* a large section between two sections that are not large: the running chunk
\* was flushed before it and a fresh chunk started after it; and a plan in
\* which two sections that are not large share a chunk next to a large one
C24_Witness ==
    /\ "plan" \in plan_pc
    /\ Len(boundaries) = 3
    /\ \/ /\ ~Oversized(1) /\ Oversized(2) /\ ~Oversized(3)
          /\ Len(chunks) = 3
       \/ /\ ~Oversized(1) /\ ~Oversized(2) /\ Oversized(3)
          /\ Len(chunks) = 2
          /\ Len(chunks[1].sections) = 2

\* the sections of a list of chunks, in list order
RECURSIVE SectionsOfChunks(_)
SectionsOfChunks(cs) ==
    IF cs = <<>> THEN <<>> ELSE Head(cs).sections \o SectionsOfChunks(Tail(cs))

\* the sections of the chunks, taken chunk by chunk, are the boundaries in
\* document order, each once, and no chunk is without a section
Partitions(cs) ==
    LET secs == SectionsOfChunks(cs)
    IN  /\ Len(secs) = Len(boundaries)
        /\ \A i \in 1..Len(secs) :
               /\ secs[i].position = boundaries[i].position
               /\ secs[i].item_number = boundaries[i].item_number
        /\ \A i, j \in 1..Len(secs) : i < j => secs[i].position < secs[j].position
        /\ \A k \in 1..Len(cs) : cs[k].sections # <<>>

\* C29: the planner partitions the boundary list: every boundary is a section
\* of exactly one returned chunk, sections and chunks are in document order,
\* no chunk has an empty section list, and extract_sections_dynamic numbers
\* the chunks 1..N.
C29_PlannerPartitions ==
    /\ "plan" \in plan_pc => Partitions(chunks)
    /\ "extract" \in plan_pc =>
           /\ Partitions(processing_chunks)
           /\ \A i \in 1..Len(processing_chunks) :
                  processing_chunks[i].chunk_id = [base |-> i, suffix |-> <<>>]

\* three boundaries planned as two chunks, one of them with two sections, and
\* extracted as two or more numbered chunks
C29_Witness ==
    /\ plan_pc = {"plan", "extract"}
    /\ Len(boundaries) = 3
    /\ Len(chunks) = 2
    /\ \E k \in 1..2 : Len(chunks[k].sections) = 2
    /\ Len(processing_chunks) >= 2

\* C16 (as claimed): every chunk create_processing_chunks returns, other than a
\* dedicated large-section chunk, has estimated_output_tokens <=
\* max_output_tokens, chunks of a single section included.
C16_OutputBudget ==
    "plan" \in plan_pc =>
        \A i \in 1..Len(chunks) :
            ~IsDedicatedLargeChunk(chunks[i]) =>
                chunks[i].estimated_output_tokens <= 10 * max_output_tokens

----------------------------------------------------------------------------
(* Boundary detector: detect_section_boundaries.                           *)
(* The regular expressions are the detector's input side: a candidate is   *)
(* one match of one strategy, with the item number and title its groups    *)
(* captured; for a PART header, has_content is the outcome of the          *)
(* look-ahead test on the 1000 characters that follow it.                  *)

\* the strategy table, in the order the loop applies it (confidence in tenths)
strategies ==
    <<[name |-> "boxed_headers",    confidence |-> 9],
      [name |-> "bold_headers",     confidence |-> 8],
      [name |-> "standard_headers", confidence |-> 7],
      [name |-> "toc_entries",      confidence |-> 6],
      [name |-> "part_headers",     confidence |-> 5]>>

\* "Within 200 characters"
min_boundary_distance == 200

\* boundary['title'].strip().upper() on the PART titles of the model
Upper(t) == CASE t = "Part I"  -> "PART I"
              [] t = "Part II" -> "PART II"
              [] OTHER         -> t

\* list.sort(key=position): Python's sort is stable
RECURSIVE InsertByPosition(_, _)
InsertByPosition(sorted, b) ==
    IF sorted = <<>> THEN <<b>>
    ELSE IF b.position < sorted[1].position THEN <<b>> \o sorted
    ELSE <<sorted[1]>> \o InsertByPosition(Tail(sorted), b)

RECURSIVE SortByPosition(_)
SortByPosition(s) ==
    IF s = <<>> THEN <<>>
    ELSE InsertByPosition(SortByPosition(SubSeq(s, 1, Len(s) - 1)), s[Len(s)])

\* list.remove(x): drops the first element equal to x
RECURSIVE RemoveFirst(_, _)
RemoveFirst(s, x) ==
    IF s = <<>> THEN <<>>
    ELSE IF s[1] = x THEN Tail(s)
    ELSE <<s[1]>> \o RemoveFirst(Tail(s), x)

\* the comparison reversed
BetterThanSeen_reversed(b, seen) == b.confidence < seen.confidence

\* the comparison with >= for >: a later candidate of equal confidence replaces
BetterThanSeen_or_equal(b, seen) == b.confidence >= seen.confidence

\* "this one has higher confidence": a strictly greater confidence replaces
BetterThanSeen(b, seen) == b.confidence > seen.confidence

\* one iteration of the first filtering loop: st = [filtered, seen_items]
FilterStep(st, b) ==
    IF b.item_number # None
    THEN LET key == b.item_number
         IN  IF key \notin DOMAIN st.seen_items
                \/ BetterThanSeen(b, st.seen_items[key])
             THEN [filtered |->
                       Append(IF key \in DOMAIN st.seen_items
                              THEN RemoveFirst(st.filtered, st.seen_items[key])
                              ELSE st.filtered, b),
                   seen_items |->
                       [k \in DOMAIN st.seen_items \cup {key} |->
                           IF k = key THEN b ELSE st.seen_items[k]]]
             ELSE st
    ELSE LET part_title == Upper(b.title.base)
         IN  IF part_title \notin DOMAIN st.seen_items /\ b.has_content
             THEN [filtered |-> Append(st.filtered, b),
                   seen_items |->
                       [k \in DOMAIN st.seen_items \cup {part_title} |->
                           IF k = part_title THEN b ELSE st.seen_items[k]]]
             ELSE st

RECURSIVE FilterLoop(_, _)
FilterLoop(st, bs) ==
    IF bs = <<>> THEN st ELSE FilterLoop(FilterStep(st, bs[1]), Tail(bs))

Abs(x) == IF x < 0 THEN -x ELSE x

\* the distance test with <= for <: boundaries exactly 200 apart are too close
is_too_close_inclusive(b, final) ==
    \E i \in 1..Len(final) : Abs(b.position - final[i].position) <= min_boundary_distance

is_too_close(b, final) ==
    \E i \in 1..Len(final) : Abs(b.position - final[i].position) < min_boundary_distance

RECURSIVE DistanceLoop(_, _)
DistanceLoop(final, bs) ==
    IF bs = <<>> THEN final
    ELSE DistanceLoop(IF is_too_close(bs[1], final) THEN final ELSE Append(final, bs[1]),
                      Tail(bs))

detect_section_boundaries(matches) ==
    LET sorted   == SortByPosition(matches)
        st       == FilterLoop([filtered |-> <<>>, seen_items |-> <<>>], sorted)
        filtered == SortByPosition(st.filtered)
    IN  DistanceLoop(<<>>, filtered)

----------------------------------------------------------------------------
(* Inputs of the detector specification *)

\* headers closer than 200 characters (0/100, 100/250), exactly 200 apart (250/450) and farther
MatchPositions == {0, 100, 250, 450}

ItemNumbers == {"1", "1A"}

ItemTitle(item) == IF item = "1" THEN "Business" ELSE "Risk Factors"

PartTitles == {"PART I", "Part I"}

ItemMatches ==
    {[strategy |-> strategies[k].name, confidence |-> strategies[k].confidence,
      position |-> p, item_number |-> it, title |-> Title(ItemTitle(it)),
      has_content |-> TRUE] : k \in 1..4, p \in MatchPositions, it \in ItemNumbers}

PartMatches ==
    {[strategy |-> strategies[5].name, confidence |-> strategies[5].confidence,
      position |-> p, item_number |-> None, title |-> Title(t),
      has_content |-> h] : p \in MatchPositions, t \in PartTitles, h \in BOOLEAN}

AllMatches == ItemMatches \cup PartMatches

\* the index of a strategy in the table
StrategyIndex(name) == CHOOSE k \in 1..Len(strategies) : strategies[k].name = name

\* re.finditer yields the matches of one pattern at distinct offsets, and the
\* header text at one offset names one item (or is one PART header)
Realizable(S) ==
    \A m1, m2 \in S :
        m1.position = m2.position =>
            /\ m1.item_number = m2.item_number
            /\ m1.strategy = m2.strategy => m1 = m2

\* the list as the strategy loop builds it: strategy by strategy, each in text order
BuiltBefore(m1, m2) ==
    \/ StrategyIndex(m1.strategy) < StrategyIndex(m2.strategy)
    \/ (m1.strategy = m2.strategy /\ m1.position < m2.position)

RECURSIVE AsBuilt(_)
AsBuilt(S) ==
    IF S = {} THEN <<>>
    ELSE LET m == CHOOSE x \in S : \A y \in S \ {x} : BuiltBefore(x, y)
         IN  <<m>> \o AsBuilt(S \ {m})

RECURSIVE MatchSets(_)
MatchSets(n) ==
    IF n = 0 THEN {{}}
    ELSE LET smaller == MatchSets(n - 1)
         IN  smaller \cup {S \cup {m} : S \in smaller, m \in AllMatches}

DetectInit ==
    /\ \E S \in MatchSets(MaxMatches) :
          /\ Realizable(S)
          /\ candidates = AsBuilt(S)
    /\ det_pc = "input"
    /\ document_content = [len |-> 2000, breaks |-> {}]
    /\ boundaries = <<>>
    /\ PlanIdle
    /\ PipeIdle
    /\ BatchIdle

Detect ==
    /\ det_pc = "input"
    /\ boundaries' = detect_section_boundaries(candidates)
    /\ det_pc' = "detected"
    /\ UNCHANGED <<document_content, candidates, planVars, pipeVars, batchVars>>

DetectNext == Detect

DetectSpec == DetectInit /\ [][DetectNext]_vars

----------------------------------------------------------------------------
(* Claims about the detector *)

CandidatesOf(item) == {i \in 1..Len(candidates) : candidates[i].item_number = item}

SurvivorsOf(item) == {i \in 1..Len(boundaries) : boundaries[i].item_number = item}

IsBestCandidate(item, i) ==
    /\ i \in CandidatesOf(item)
    /\ \A j \in CandidatesOf(item) : candidates[j].confidence <= candidates[i].confidence

\* C4 (as claimed): every item number with a candidate has exactly one boundary
\* in the result, and it has the greatest confidence among the candidates.
C4_ExactlyOneBest ==
    det_pc = "detected" =>
        \A item \in ItemNumbers :
            CandidatesOf(item) # {} =>
                /\ Cardinality(SurvivorsOf(item)) = 1
                /\ \A i \in SurvivorsOf(item) : \E j \in CandidatesOf(item) :
                       IsBestCandidate(item, j)
                       /\ boundaries[i].confidence = candidates[j].confidence

\* C4 (amended): every item number with a candidate has at most one boundary
\* in the result; a boundary that survives has the greatest confidence among
\* the item's candidates; and the item has none only when a best candidate lies
\* within 200 characters of a boundary that was kept.
C4_AtMostOneBest ==
    det_pc = "detected" =>
        \A item \in ItemNumbers :
            CandidatesOf(item) # {} =>
                /\ Cardinality(SurvivorsOf(item)) <= 1
                /\ \A i \in SurvivorsOf(item) : \E j \in CandidatesOf(item) :
                       IsBestCandidate(item, j)
                       /\ boundaries[i].confidence = candidates[j].confidence
                /\ SurvivorsOf(item) = {} =>
                       \E j \in CandidatesOf(item), k \in 1..Len(boundaries) :
                           /\ IsBestCandidate(item, j)
                           /\ Abs(candidates[j].position - boundaries[k].position)
                                  < min_boundary_distance

\* one item matched by two strategies survives with the better confidence while
\* the other item, too close to a kept boundary, has no boundary left
C4_Witness ==
    /\ det_pc = "detected"
    /\ \E item, other \in ItemNumbers :
          /\ \E i, j \in CandidatesOf(item) :
                 candidates[i].confidence < candidates[j].confidence
          /\ Cardinality(SurvivorsOf(item)) = 1
          /\ CandidatesOf(other) # {}
          /\ SurvivorsOf(other) = {}

\* the candidate the per-item selection keeps: of the item's candidates with
\* the greatest confidence, the one at the earliest position
IsEarliestBest(item, j) ==
    /\ IsBestCandidate(item, j)
    /\ \A k \in CandidatesOf(item) :
           IsBestCandidate(item, k) => candidates[j].position <= candidates[k].position

\* C25: among the candidates that share an item number the detector keeps the
\* one with the highest confidence, the earliest of them when several tie: a
\* boundary returned for the item is that candidate, and no other candidate of
\* the item stands in for it when the distance filter drops it.
C25_EarliestBestKept ==
    det_pc = "detected" =>
        \A item \in ItemNumbers :
            /\ \A i \in SurvivorsOf(item) : \E j \in CandidatesOf(item) :
                   /\ IsEarliestBest(item, j)
                   /\ boundaries[i] = candidates[j]
            /\ (CandidatesOf(item) # {} /\ SurvivorsOf(item) = {}) =>
                   \E j \in CandidatesOf(item), k \in 1..Len(boundaries) :
                       /\ IsEarliestBest(item, j)
                       /\ boundaries[k].position < candidates[j].position
                       /\ candidates[j].position - boundaries[k].position
                              < min_boundary_distance

\* two candidates of one item tie on the highest confidence, a third has a
\* lower one, and the boundary returned is the earlier of the two
C25_Witness ==
    /\ det_pc = "detected"
    /\ \E item \in ItemNumbers :
          \E i, j, l \in CandidatesOf(item), k \in SurvivorsOf(item) :
              /\ candidates[i].position < candidates[j].position
              /\ candidates[i].confidence = candidates[j].confidence
              /\ candidates[l].confidence < candidates[i].confidence
              /\ IsBestCandidate(item, i)
              /\ boundaries[k] = candidates[i]

\* the survivors of the first filtering loop: for an item number its earliest
\* candidate of greatest confidence, for a PART title the earliest of its
\* headers that is followed by content
Selected ==
    {candidates[j] : j \in {i \in 1..Len(candidates) :
        IF candidates[i].item_number # None
        THEN IsEarliestBest(candidates[i].item_number, i)
        ELSE /\ candidates[i].has_content
             /\ \A k \in 1..Len(candidates) :
                    (/\ candidates[k].item_number = None
                     /\ candidates[k].has_content
                     /\ Upper(candidates[k].title.base) = Upper(candidates[i].title.base))
                        => candidates[i].position <= candidates[k].position}}

Returned == Range(boundaries)

\* the returned list is strictly ascending by position, with any two
\* boundaries at least the minimum distance apart
SortedAndApart ==
    \A i, j \in 1..Len(boundaries) :
        i < j => boundaries[j].position - boundaries[i].position >= min_boundary_distance

\* C26 (as claimed): the returned list is strictly ascending by position with
\* any two boundaries at least 200 characters apart, and of two survivors
\* closer than that the earlier one is kept and the later one is dropped.
C26_EarlierOfTwoKept ==
    det_pc = "detected" =>
        /\ SortedAndApart
        /\ \A a, b \in Selected :
               (a.position < b.position
                /\ b.position - a.position < min_boundary_distance) =>
                   /\ a \in Returned
                   /\ b \notin Returned

\* C26 (amended): the returned list is strictly ascending by position with
\* any two boundaries at least 200 characters apart; it holds survivors only,
\* and a survivor is dropped exactly when it lies less than 200 characters
\* after a boundary that is returned, so the later of two close survivors is
\* dropped whenever the earlier one was kept, and kept when the earlier one was
\* itself dropped and no returned boundary is close.
C26_DroppedIffCloseToKept ==
    det_pc = "detected" =>
        /\ SortedAndApart
        /\ Returned \subseteq Selected
        /\ \A b \in Selected :
               b \notin Returned <=>
                   \E a \in Returned :
                       /\ a.position < b.position
                       /\ b.position - a.position < min_boundary_distance

\* three survivors 100 and 150 characters apart: the middle one is dropped for
\* the first, and the last one, close to the dropped one only, is returned
C26_Witness ==
    /\ det_pc = "detected"
    /\ Cardinality(Selected) = 3
    /\ Len(boundaries) = 2
    /\ \E b \in Selected \ Returned :
          /\ boundaries[1].position < b.position
          /\ b.position < boundaries[2].position
          /\ boundaries[2].position - b.position < min_boundary_distance

----------------------------------------------------------------------------
(* The pipeline specification: process_with_gemini on one filing *)

\* section lengths of the filings, in characters: one section of 100 tokens;
\* two such sections, planned as one chunk; and a section of 100 tokens before
\* one of 82,500 tokens (above the default output budget), planned as two chunks
FilingShapes == {<<400>>, <<400, 400>>, <<400, 330000>>}

\* the constructor's default, and a ceiling a prompt of two short sections
\* exceeds and a prompt of one does not
Ceilings == {800, default_max_tokens_per_chunk}

\* a filing without a detected header, and filings whose first header is at
\* the start of the text or after a cover page, with one paragraph break 150
\* characters into the first section
Filings ==
    {[doc |-> [len |-> 11, breaks |-> {}], bs |-> <<>>]}
    \cup {[doc |-> [len |-> first + SumSeq(lens), breaks |-> {first + 150}],
           bs  |-> BoundariesAt(first, lens, 1)] :
             first \in FirstPositions, lens \in FilingShapes}

Init ==
    /\ \E f \in Filings :
          /\ document_content = f.doc
          /\ boundaries = f.bs
    /\ max_tokens_per_chunk \in Ceilings
    /\ pc = "start"
    /\ now = 0
    /\ QueueIdle
    /\ PlanIdle
    /\ DetIdle
    /\ BatchIdle

Next ==
    \/ Start
    \/ PopChunk
    \/ Attempt
    \/ GiveUp
    \/ ModelRaises
    \/ ModelReturnsEmpty
    \/ ModelReturnsMalformed
    \/ ModelReturnsJson
    \/ HandleResult
    \/ Combine
    \/ FallbackReturns
    \/ FallbackRaises

Spec == Init /\ [][Next]_vars

----------------------------------------------------------------------------
(* Claims about the chunk processor and the queue loop *)

\* C1: process_chunk_with_backtrack finishes within max_retries attempts: for
\* each chunk the loop body runs at most max_retries times and the model is
\* invoked at most max_retries times, whatever the model answers.
C1_RetryBound ==
    /\ retry_count <= max_retries
    /\ history.attempts <= max_retries
    /\ history.calls <= max_retries
    /\ history.calls + history.skips <= history.attempts

\* the function used up all its attempts, each with a call of the model
C1_Witness ==
    /\ pc = "returned"
    /\ history.attempts = max_retries
    /\ history.calls = max_retries
    /\ ~result.success

\* the pipeline has nothing left to do
Stopped == pc \in {"combined", "fallback_returned", "fallback_raised"}

\* C2 (as claimed): the queue loop of process_with_gemini empties its queue and
\* reaches the combiner: a pipeline that has stopped has stopped after the
\* combiner ran on an empty queue.
C2_ReachesCombiner ==
    Stopped => pc = "combined" /\ chunk_queue = <<>> /\ final_json # Nothing

\* the status of the answer is partial_* or stopped_*
IsPartialStatus(json) ==
    LET status == Get(json, "processing_status", "unknown")
    IN  StartsWith(status, "partial") \/ StartsWith(status, "stopped")

\* the sections of the chunk whose declared title the list names
NamedByTitle(chunk, completed) ==
    {i \in 1..Len(chunk.sections) : TitledName(chunk.sections[i]) \in Range(completed)}

\* C6 (as claimed): when the answer to a multi-section chunk has a partial_* or
\* stopped_* status and a non-empty sections_completed list naming some, not
\* all, of the chunk's sections by their declared titles, the function returns
\* success=True, partial=True and a remaining_chunk holding exactly the sections
\* not named, in their original order.
C6_RemainingExcludesCompleted ==
    (/\ pc = "returned"
     /\ result.success
     /\ IsPartialStatus(result.result)
     /\ result.completed_sections.type = "list"
     /\ Len(attempt_chunk.sections) > 1
     /\ NamedByTitle(attempt_chunk, result.completed_sections.items) # {}
     /\ NamedByTitle(attempt_chunk, result.completed_sections.items)
            # 1..Len(attempt_chunk.sections))
    => /\ Get(result, "partial", FALSE)
       /\ "remaining_chunk" \in DOMAIN result
       /\ LET named == NamedByTitle(attempt_chunk, result.completed_sections.items)
              NotNamed(s) == \A i \in named : attempt_chunk.sections[i] # s
          IN  result.remaining_chunk.sections = SelectSeq(attempt_chunk.sections, NotNamed)

\* a chunk as the planner made it: not shrunk, not a continuation, not the
\* whole-document pseudo-chunk
IsPlannedChunk(chunk) == chunk.chunk_id.suffix = <<>> /\ "start_pos" \in DOMAIN chunk

FailedChunks == final_json.PROCESSING_METADATA.failed_chunks

\* C7 (as claimed): if the model raises on every invocation, then for a planned
\* chunk the function invokes the model exactly max_retries times and returns
\* success=False with an error string, and the final document's failed_chunks
\* has one record for the chunk with its chunk id and the titles of its sections.
C7_AlwaysRaising ==
    /\ (pc = "returned" /\ history.all_raise /\ IsPlannedChunk(current_chunk)) =>
           /\ history.calls = max_retries
           /\ ~result.success
           /\ "error" \in DOMAIN result
    /\ (pc = "combined" /\ history.all_raise) =>
           /\ Len(FailedChunks) = Len(processing_chunks)
           /\ \A i \in 1..Len(processing_chunks) :
                 /\ FailedChunks[i].chunk_id = FailedId(processing_chunks[i].chunk_id)
                 /\ FailedChunks[i].sections_attempted =
                        [j \in 1..Len(processing_chunks[i].sections) |->
                            processing_chunks[i].sections[j].title.base]

\* C7 (amended): if the model raises on every invocation, then for a planned
\* chunk the function makes max_retries attempts, invokes the model in those
\* whose prompt is within the ceiling (max_retries minus the attempts skipped
\* over the ceiling) and returns success=False with an error string, and the
\* final document's failed_chunks has one record per planned chunk, with the
\* chunk id prefixed by FAILED_ and the item numbers of its sections.
C7_AlwaysRaisingAmended ==
    /\ (pc = "returned" /\ history.all_raise /\ IsPlannedChunk(current_chunk)) =>
           /\ history.attempts = max_retries
           /\ history.calls = max_retries - history.skips
           /\ ~result.success
           /\ "error" \in DOMAIN result
    /\ (pc = "combined" /\ history.all_raise) =>
           /\ Len(FailedChunks) = Len(processing_chunks)
           /\ \A i \in 1..Len(processing_chunks) :
                 /\ FailedChunks[i].chunk_id = FailedId(processing_chunks[i].chunk_id)
                 /\ FailedChunks[i].sections_attempted =
                        [j \in 1..Len(processing_chunks[i].sections) |->
                            processing_chunks[i].sections[j].item_number]

\* the model raised on every call, three times for the last chunk of the
\* filing, and the document is combined with one failure record per chunk
C7_Witness ==
    /\ pc = "combined"
    /\ history.all_raise
    /\ history.calls = max_retries
    /\ Len(FailedChunks) = Len(processing_chunks)
    /\ Len(FailedChunks) >= 1

\* C10 (as claimed): no exception escapes the chunking core:
\* process_chunk_with_backtrack returns a result instead of raising, and
\* process_with_gemini returns instead of raising.
C10_NoExceptionEscapes ==
    /\ \A i \in 1..Len(history.raised) :
           history.raised[i].from \notin
               {"process_chunk_with_backtrack", "process_with_gemini"}
    /\ pc # "fallback_raised"

\* the queue loop is running: no exception has reached the handler of
\* process_with_gemini
InQueueLoop == pc \in {"loop", "attempt", "call", "returned", "combined"}

\* the entries of all_results recorded for failed chunks
FailureEntries == {i \in 1..Len(all_results) : "raw_response" \in DOMAIN all_results[i]}

\* chunk ids submitted to process_chunk_with_backtrack so far
Submitted == Range(history.submitted)

\* C11: a chunk whose processing ends with success=False does not abort the
\* pipeline: the queue loop records one failure entry for it, leaves the queue
\* as it is and goes back to the loop test, so that every chunk planned after
\* the failed one is still in the queue or has been submitted, and all planned
\* chunks have been submitted when the loop reaches the combiner.
C11_FailureDoesNotAbort ==
    /\ [][(pc = "returned" /\ ~result.success) =>
             /\ pc' = "loop"
             /\ all_results' = Append(all_results, failed_chunk_info)
             /\ chunk_queue' = chunk_queue]_vars
    /\ []((InQueueLoop /\ FailureEntries # {}) =>
             /\ \A k \in 1..Len(processing_chunks) :
                    \/ processing_chunks[k].chunk_id \in Submitted
                    \/ \E q \in 1..Len(chunk_queue) : chunk_queue[q] = processing_chunks[k]
             /\ pc = "combined" =>
                    \A k \in 1..Len(processing_chunks) :
                        processing_chunks[k].chunk_id \in Submitted)

\* the first of two planned chunks failed, the second was still submitted and
\* the combiner ran
C11_Witness ==
    /\ pc = "combined"
    /\ Len(processing_chunks) = 2
    /\ 1 \in FailureEntries
    /\ Len(history.submitted) >= 2
    /\ history.submitted[2] = processing_chunks[2].chunk_id

\* the step hands a chunk to process_chunk_with_backtrack
Submits == chunk_num' = chunk_num + 1

\* the step handles a partial result that carries a remaining_chunk
Requeues ==
    /\ pc = "returned"
    /\ pc' = "loop"
    /\ result.success
    /\ Get(result, "partial", FALSE)
    /\ "remaining_chunk" \in DOMAIN result

\* C12: chunks are processed one at a time from the front of the queue, and
\* the remaining_chunk of a partial result is inserted at the front of the
\* queue, so the continuations of chunk k are all processed before any chunk
\* planned after chunk k.
C12_ContinuationFirst ==
    /\ [][/\ Submits =>
                /\ pc = "loop"
                /\ current_chunk' = Head(chunk_queue)
                /\ chunk_queue' = Tail(chunk_queue)
          /\ Requeues => chunk_queue' = <<result.remaining_chunk>> \o chunk_queue]_vars
    /\ [](\A i, j \in 1..Len(history.submitted) :
              i < j => history.submitted[i].base <= history.submitted[j].base)

\* the first planned chunk, its continuation, then the second planned chunk
C12_Witness ==
    /\ Len(processing_chunks) = 2
    /\ Len(history.submitted) >= 3
    /\ history.submitted[1] = processing_chunks[1].chunk_id
    /\ history.submitted[2].base = 1
    /\ history.submitted[2].suffix # <<>>
    /\ history.submitted[3] = processing_chunks[2].chunk_id

\* the sections the planner put into the chunks
PlannedSections ==
    UNION {Range(processing_chunks[k].sections) : k \in 1..Len(processing_chunks)}

\* the section is listed in the sections_attempted of a failed_chunks record
ListedAsAttempted(s) ==
    \E f \in 1..Len(FailedChunks) :
        s.item_number \in Range(FailedChunks[f].sections_attempted)

\* C13 (as claimed): when the pipeline finishes, every section the planner put
\* into a chunk was in the scope of a request whose result was accepted as
\* successful, or is listed in the sections_attempted of a failed_chunks
\* record; sections dropped by a shrink are not lost when the shrunk chunk
\* succeeds.
C13_SectionsAccounted ==
    pc = "combined" =>
        \A s \in PlannedSections : s \in history.accepted \/ ListedAsAttempted(s)

\* C15 (as claimed): when no boundary is detected, extract_sections_dynamic
\* returns exactly one pseudo-chunk whose content is the whole document and
\* which holds one whole-document section, and the pipeline processes it
\* through the chunk processor like any other chunk: the queue loop keeps
\* running and ends with an entry for the pseudo-chunk in all_results.
C15_PseudoChunkProcessed ==
    (boundaries = <<>> /\ pc # "start") =>
        /\ Len(processing_chunks) = 1
        /\ processing_chunks[1].content = WholeText(document_content)
        /\ Len(processing_chunks[1].sections) = 1
        /\ processing_chunks[1].sections[1].item_number = "ALL"
        /\ InQueueLoop
        /\ pc = "combined" => Len(all_results) >= 1

\* the sections_completed list of an answer, empty when the answer has none
ListedAsCompleted(json) ==
    IF "chunk_metadata" \in DOMAIN json
    THEN json.chunk_metadata.sections_completed
    ELSE PyList(<<>>)

\* the step is a call of the model answered as `kind`
CallAnswered(kind) ==
    /\ history'.calls = history.calls + 1
    /\ history'.last_answer = kind

\* C18: on a partial_* or stopped_* answer whose sections_completed list is
\* empty or missing, process_chunk_with_backtrack never returns a partial
\* result with a remaining_chunk: it replaces its chunk by the one
\* reduce_chunk_size returns, adds one to retry_count and goes back to the loop
\* test, so the chunk it sent is not sent again.
C18_NoProgressShrinks ==
    /\ []((pc = "returned" /\ result.success /\ IsPartialStatus(result.result)) =>
              /\ ListedAsCompleted(result.result).type = "list"
              /\ ListedAsCompleted(result.result).items # <<>>)
    /\ [][CallAnswered("no_progress") =>
              /\ pc' = "attempt"
              /\ retry_count' = retry_count + 1
              /\ attempt_chunk' = reduce_chunk_size(attempt_chunk,
                                                    document_content.breaks).chunk
              /\ attempt_chunk' # attempt_chunk]_vars

\* the model reported no progress twice; both times the chunk was shrunk and
\* the attempt counted
C18_Witness ==
    /\ pc = "attempt"
    /\ history.last_answer = "no_progress"
    /\ history.calls = 2
    /\ retry_count = 2
    /\ attempt_chunk.chunk_id.suffix = <<"reduced", "reduced">>

\* the prompt process_chunk_with_backtrack builds for its current chunk
CurrentPrompt == create_chunk_prompt(attempt_chunk, chunk_num = 1, completed_sections)

\* the attempt about to run finds its prompt above the ceiling
OverCeiling ==
    /\ pc = "attempt"
    /\ retry_count < max_retries
    /\ CurrentPrompt.raised = None
    /\ CurrentPrompt.len \div 4 > max_tokens_per_chunk

\* C19: process_chunk_with_backtrack never invokes the model with a prompt
\* whose estimated token count exceeds max_tokens_per_chunk: such an attempt
\* shrinks the chunk and restarts without a model call, counting as a retry,
\* and a failure is returned for the chunk only when the retries are used up.
C19_CeilingRespected ==
    /\ [](pc = "call" => CurrentPrompt.len \div 4 <= max_tokens_per_chunk)
    /\ [][OverCeiling =>
              /\ history'.calls = history.calls
              /\ pc' = "attempt"
              /\ retry_count' = retry_count + 1
              /\ attempt_chunk' = reduce_chunk_size(attempt_chunk,
                                                    document_content.breaks).chunk]_vars
    /\ []((pc = "returned" /\ ~result.success) => history.attempts = max_retries)

\* a chunk above the ceiling was shrunk without a call, and the shrunk chunk,
\* within the ceiling, is being sent
C19_Witness ==
    /\ pc = "call"
    /\ history.skips = 1
    /\ history.calls = 0
    /\ retry_count = 1
    /\ attempt_chunk.chunk_id.suffix = <<"reduced">>

\* the processing_status of an answer, "unknown" when the answer has none
StatusOf(json) ==
    IF "processing_status" \in DOMAIN json THEN json.processing_status ELSE "unknown"

\* C23: a parsed answer whose status starts with none of 'completed',
\* 'partial', 'stopped', or that has no processing_status, is accepted as it
\* is: process_chunk_with_backtrack returns success=True with the parsed
\* answer, an empty completed_sections list and no remaining_chunk, without
\* shrinking its chunk and without another model call.
C23_UnknownStatusAccepted ==
    /\ [][CallAnswered("unknown_status") =>
              /\ pc' = "returned"
              /\ result'.success
              /\ result'.result \in JsonAnswers(attempt_chunk)
              /\ StatusOf(result'.result) \in {"in_progress", "unknown"}
              /\ result'.completed_sections = PyList(<<>>)
              /\ DOMAIN result' = {"success", "result", "completed_sections", "retry_count"}
              /\ result'.retry_count = retry_count
              /\ attempt_chunk' = attempt_chunk
              /\ retry_count' = retry_count]_vars
    /\ []((pc = "returned" /\ history.last_answer = "unknown_status") =>
              /\ result.success
              /\ StatusOf(result.result) \in {"in_progress", "unknown"})

\* an answer without a processing_status was accepted on the first call, and
\* one with the status 'in_progress' after a shrink
C23_Witness ==
    /\ pc = "returned"
    /\ history.last_answer = "unknown_status"
    /\ \/ /\ "processing_status" \notin DOMAIN result.result
          /\ history.calls = 1
          /\ retry_count = 0
       \/ /\ StatusOf(result.result) = "in_progress"
          /\ retry_count = 1
          /\ attempt_chunk.chunk_id.suffix = <<"reduced">>

\* the step replaces the processor's chunk by what reduce_chunk_size returned
Shrinks ==
    /\ pc \in {"attempt", "call"}
    /\ attempt_chunk'.chunk_id = AddSuffix(attempt_chunk.chunk_id, "reduced")

\* C20 (as claimed): every application of reduce_chunk_size in the retry loop
\* returns a chunk whose content is strictly shorter than the content of the
\* chunk it was given and whose section list is not empty.
C20_ShrinkStrictlyReduces ==
    [][Shrinks =>
          /\ TextLen(attempt_chunk'.content) < TextLen(attempt_chunk.content)
          /\ attempt_chunk'.sections # <<>>]_vars

----------------------------------------------------------------------------
(* The shrink specification: reduce_chunk_size applied, as the retry loop   *)
(* of process_chunk_with_backtrack applies it, up to max_retries times in   *)
(* a row to a chunk of the plan of a filing                                 *)

\* the longest section list of a planned chunk
MaxSections == 4

\* a section shorter than the 200-character search window, and a longer one
ShrinkLens == {120, 400}

\* filings of one to MaxSections short sections, planned as one chunk, and
\* filings whose first section is above the output budget on its own, so that
\* the second section is planned as a chunk that starts inside the document
ShrinkShapes ==
    UNION {[1..k -> ShrinkLens] : k \in 1..MaxSections}
    \cup {<<330000, 120>>, <<330000, 400>>}

\* offsets of the one paragraph break of a filing, counted from the start of
\* its last section: none within the section (the break is past its end), one
\* in the window around the middle of either section length, one near the end
\* of the short section
BreakOffsets == {150, 115, 1000000}

ShrinkFilings ==
    {[doc |-> [len |-> first + SumSeq(lens),
               breaks |-> {first + SumSeq(lens) - lens[Len(lens)] + off}],
      bs  |-> BoundariesAt(first, lens, 1)] :
        first \in FirstPositions, lens \in ShrinkShapes, off \in BreakOffsets}

ShrinkInit ==
    /\ \E f \in ShrinkFilings :
          /\ document_content = f.doc
          /\ boundaries = f.bs
    /\ PlanIdle
    /\ DetIdle
    /\ PipeIdle
    /\ BatchIdle

\* current_chunk = chunk_data.copy() on entry to process_chunk_with_backtrack
TakeChunk ==
    /\ attempt_chunk = Nothing
    /\ \E i \in 1..Len(processing_chunks) : attempt_chunk' = processing_chunks[i]
    /\ UNCHANGED <<docVars, planVars, detVars, batchVars, max_tokens_per_chunk, pc,
                   chunk_queue, all_results, completed_sections, chunk_num, current_chunk,
                   retry_count, result, final_json, output, now, combine_runs, history>>

\* current_chunk = self.reduce_chunk_size(current_chunk); retry_count += 1
Reduce ==
    /\ attempt_chunk # Nothing
    /\ retry_count < max_retries
    /\ ~reduce_raises(attempt_chunk)
    /\ attempt_chunk' = reduce_chunk_size(attempt_chunk, document_content.breaks).chunk
    /\ retry_count' = retry_count + 1
    /\ UNCHANGED <<docVars, planVars, detVars, batchVars, max_tokens_per_chunk, pc,
                   chunk_queue, all_results, completed_sections, chunk_num, current_chunk,
                   result, final_json, output, now, combine_runs, history>>

ShrinkNext == Extract \/ TakeChunk \/ Reduce

ShrinkSpec == ShrinkInit /\ [][ShrinkNext]_vars

----------------------------------------------------------------------------
(* Claims about reduce_chunk_size *)

\* the document text from offset a to offset b
DocText(a, b) == [lo |-> a, hi |-> b]

\* the step is an application of reduce_chunk_size to the current chunk
Reducing == attempt_chunk # Nothing /\ retry_count' = retry_count + 1

NearestSplits(section) ==
    LET L    == section.end_position - section.position
        mid  == L \div 2
        near == {i \in 0..(L - 2) :
                    /\ section.position + i \in document_content.breaks
                    /\ mid - break_window <= i
                    /\ i < mid + break_window}
        Dist(i) == IF i < mid THEN mid - i ELSE i - mid
    IN  IF near = {} THEN {mid}
        ELSE {i \in near : \A j \in near : Dist(i) <= Dist(j)}

\* C22 (as claimed): a shrink of a chunk with exactly one section keeps the
\* section's position, ends it at the paragraph break nearest to the midpoint
\* of its own text (the midpoint when none is nearby), strictly between its
\* position and its old end, tags its title with the continuation suffix, and
\* sets the content to the document text between the position and the new
\* end, whatever the section's length and wherever the chunk starts.
C22_SplitKeepsFirstHalf ==
    [][(Reducing /\ Len(attempt_chunk.sections) = 1) =>
          LET section == attempt_chunk.sections[1]
              kept    == attempt_chunk'.sections
          IN  /\ Len(kept) = 1
              /\ kept[1].position = section.position
              /\ kept[1].end_position - section.position \in NearestSplits(section)
              /\ section.position < kept[1].end_position
              /\ kept[1].end_position < section.end_position
              /\ kept[1].title = [section.title EXCEPT !.parts = @ + 1]
              /\ attempt_chunk'.content =
                     DocText(section.position, kept[1].end_position)]_vars

----------------------------------------------------------------------------
(* The combiner specification: combine_incremental_results run repeatedly   *)
(* on one list of chunk results while the clock advances                    *)

KeyNames ==
    {SectionName("Item", "1A", "Risk Factors"),
     SectionName("Item", "7A", "Market Risk"),
     SectionName("Item", "7a", "Market Risk"),
     SectionName("item", "15", "Exhibits"),
     SectionName("", "", "Risk Factors")}

KeySets == {{}} \cup {{n} : n \in KeyNames}
           \cup {{SectionName("Item", "1A", "Risk Factors"),
                  SectionName("Item", "7A", "Market Risk")}}

\* answers the processor returned with success=True
SuccessResults == {ModelJson("completed", PyList(<<>>), SectionsOf(S)) : S \in KeySets}

\* answers returned with success=True that carry a top-level "error" field
ErrorKeyedResults ==
    {ModelJsonWithError(SectionsOf({SectionName("Item", "1A", "Risk Factors")})),
     [error |-> "cannot process"]}

\* failed_chunk_info records of process_with_gemini
FailureResults ==
    {[chunk_id |-> FailedId(ChunkId(2)), error |-> "model error",
      sections |-> PyList(<<[item_number |-> it, title |-> Title(t)]>>),
      raw_response |-> ""] :
        it \in {"2"}, t \in {"Properties"}}
    \cup {[chunk_id |-> FailedId(ChunkId(1)), error |-> "Failed after 3 attempts",
           sections |-> PyList(<<[item_number |-> None, title |-> Title("PART I")]>>),
           raw_response |-> ""]}

ChunkResults == SuccessResults \cup ErrorKeyedResults \cup FailureResults

ResultLists == UNION {[1..k -> ChunkResults] : k \in 0..MaxResults}

CombineInit ==
    /\ all_results \in ResultLists
    /\ pc = "combiner"
    /\ now = 0
    /\ combine_runs = <<>>
    /\ max_tokens_per_chunk = default_max_tokens_per_chunk
    /\ chunk_queue = <<>>
    /\ completed_sections = <<>>
    /\ chunk_num = 0
    /\ current_chunk = Nothing
    /\ attempt_chunk = Nothing
    /\ retry_count = 0
    /\ result = Nothing
    /\ final_json = Nothing
    /\ output = Nothing
    /\ history = NewHistory
    /\ document_content = [len |-> 0, breaks |-> {}]
    /\ boundaries = <<>>
    /\ PlanIdle
    /\ DetIdle
    /\ BatchIdle

\* time passes between two runs
Tick ==
    /\ pc = "combiner"
    /\ now < MaxClock
    /\ now' = now + 1
    /\ UNCHANGED <<docVars, planVars, detVars, batchVars, max_tokens_per_chunk, pcbVars,
                   queueVars,
                   combine_runs>>

\* one call of combine_incremental_results(all_results)
CombineRun ==
    /\ pc = "combiner"
    /\ Len(combine_runs) < MaxRuns
    /\ LET r == combine_incremental_results(all_results, now)
       IN  /\ combine_runs' = Append(combine_runs, r)
           /\ final_json' = IF r.raised # None THEN final_json ELSE r.value
    /\ UNCHANGED <<docVars, planVars, detVars, batchVars, max_tokens_per_chunk, pcbVars, now,
                   chunk_queue, all_results, completed_sections, chunk_num, current_chunk,
                   output>>

CombineNext == Tick \/ CombineRun

CombineSpec == CombineInit /\ [][CombineNext]_vars

----------------------------------------------------------------------------
(* Claims about the combiner *)

\* the entry process_with_gemini appends for a chunk whose result had
\* success=False
IsFailedResult(chunk_result) == "raw_response" \in DOMAIN chunk_result

SectionKeys(chunk_result) == DOMAIN Get(chunk_result, "sections", PyDict(<<>>)).items

\* C8 (as claimed): for any list of chunk results, the combiner produces a
\* document in which (a) failed_chunks has as many records as there are failed
\* results and every section in the document comes from a successful result,
\* and (b) every section key of every successful result is under the category
\* the table assigns to its item number and under no other.
C8_CombinerAccounting ==
    \A k \in 1..Len(combine_runs) :
        LET r == combine_runs[k]
            successes == {i \in 1..Len(all_results) : ~IsFailedResult(all_results[i])}
        IN  /\ r.raised = None
            /\ Len(r.value.PROCESSING_METADATA.failed_chunks)
                   = Len(all_results) - Cardinality(successes)
            /\ \A cat \in Categories : \A n \in DOMAIN r.value.CATEGORIES[cat] :
                   \E i \in successes : n \in SectionKeys(all_results[i])
            /\ \A i \in successes : \A n \in SectionKeys(all_results[i]) :
                   item_match(n) \in DOMAIN section_to_category =>
                       \A cat \in Categories :
                           n \in DOMAIN r.value.CATEGORIES[cat]
                               <=> cat = section_to_category[item_match(n)]

AllSuccessful == \A i \in 1..Len(all_results) : ~IsFailedResult(all_results[i])

WithoutTimestamp(r) ==
    IF r.raised # None THEN r
    ELSE [r EXCEPT !.value.PROCESSING_METADATA.timestamp = 0]

ItemNumberOf(n) == IF n.item = "7a" THEN "7A" ELSE n.item

\* the key contains an item number: the word 'Item' in either case before it
HasItemNumber(n) == n.word \in {"Item", "item"} /\ n.item # ""

\* C28 (as claimed): the combiner files a section key under the category the
\* lookup table gives for the item number the key contains, however the word
\* 'Item' and the item's letter suffix are capitalised; only a key without an
\* item number is filed under the first category by default.
C28_CategoryIgnoresCase ==
    \A k \in 1..Len(combine_runs) :
        combine_runs[k].raised = None =>
            \A i \in 1..Len(all_results) :
                "error" \notin DOMAIN all_results[i] =>
                    \A n \in SectionKeys(all_results[i]) :
                        (HasItemNumber(n)
                         /\ ItemNumberOf(n) \in DOMAIN section_to_category) =>
                            n \in DOMAIN combine_runs[k].value.CATEGORIES[
                                      section_to_category[ItemNumberOf(n)]]

----------------------------------------------------------------------------
(* The merge specification: combine_incremental_results called on a list of *)
(* results the processor returned with success=True, then on the same       *)
(* results in another order, or with one of them repeated                   *)

\* the longest list of results passed to the combiner
MaxMerged == 3

MergeKeys ==
    {SectionName("Item", "1A", "Risk Factors"),
     SectionName("Item", "7A", "Market Risk"),
     SectionName("", "", "Risk Factors")}

\* two contents a model answer can carry under a section key
SectionContents == {"text", "other text"}

\* answers with one section, with either content, and an answer with two
MergeResults ==
    {ModelJson("completed", PyList(<<>>), [n \in {k} |-> [content |-> c]]) :
        k \in MergeKeys, c \in SectionContents}
    \cup {ModelJson("completed", PyList(<<>>),
                    SectionsOf({SectionName("Item", "1A", "Risk Factors"),
                                SectionName("Item", "7A", "Market Risk")}))}
    \cup ErrorKeyedResults

MergeInit ==
    /\ all_results \in UNION {[1..k -> MergeResults] : k \in 1..(MaxMerged - 1)}
    /\ pc = "merge_input"
    /\ now = 0
    /\ combine_runs = <<>>
    /\ max_tokens_per_chunk = default_max_tokens_per_chunk
    /\ chunk_queue = <<>>
    /\ completed_sections = <<>>
    /\ chunk_num = 0
    /\ current_chunk = Nothing
    /\ attempt_chunk = Nothing
    /\ retry_count = 0
    /\ result = Nothing
    /\ final_json = Nothing
    /\ output = Nothing
    /\ history = NewHistory
    /\ document_content = [len |-> 0, breaks |-> {}]
    /\ boundaries = <<>>
    /\ PlanIdle
    /\ DetIdle
    /\ BatchIdle

\* final_json = self.combine_incremental_results(chunk_results); nothing is
\* returned when the call raises
CombineOn(chunk_results) ==
    /\ all_results' = chunk_results
    /\ LET r == combine_incremental_results(chunk_results, now)
       IN  final_json' = IF r.raised # None THEN Nothing ELSE r.value
    /\ pc' = "merged"
    /\ UNCHANGED <<docVars, planVars, detVars, batchVars, max_tokens_per_chunk,
                   attempt_chunk, retry_count, result, history, now, combine_runs,
                   chunk_queue, completed_sections, chunk_num, current_chunk, output>>

CombineList ==
    /\ pc = "merge_input"
    /\ CombineOn(all_results)

\* the same results in another order
CombinePermuted ==
    /\ pc = "merged"
    /\ \E p \in [1..Len(all_results) -> 1..Len(all_results)] :
          /\ \A i, j \in 1..Len(all_results) : p[i] = p[j] => i = j
          /\ \E i \in 1..Len(all_results) : p[i] # i
          /\ CombineOn([i \in 1..Len(all_results) |-> all_results[p[i]]])

\* one of the results once more, at any place of the list
CombineRepeated ==
    /\ pc = "merged"
    /\ Len(all_results) < MaxMerged
    /\ \E i \in 1..Len(all_results), at \in 0..Len(all_results) :
          CombineOn(SubSeq(all_results, 1, at) \o <<all_results[i]>>
                    \o SubSeq(all_results, at + 1, Len(all_results)))

MergeNext == CombineList \/ CombinePermuted \/ CombineRepeated

MergeSpec == MergeInit /\ [][MergeNext]_vars

----------------------------------------------------------------------------
(* Claims about the merge *)

\* no two different results of the list emit the same section key
NoSharedKeys(rs) ==
    \A i, j \in 1..Len(rs) :
        rs[i] # rs[j] => SectionKeys(rs[i]) \cap SectionKeys(rs[j]) = {}

\* the last result of the list that emits the key
LastEmitting(rs, n) ==
    CHOOSE i \in 1..Len(rs) :
        /\ n \in SectionKeys(rs[i])
        /\ \A j \in (i + 1)..Len(rs) : n \notin SectionKeys(rs[j])

\* C27: the merge of section content does not depend on the order of the
\* results and is idempotent: when no two different results emit the same
\* section key, the combiner returns the same CATEGORIES mapping and the same
\* per-category counts for the results in another order or with one of them
\* repeated; and every key in the document carries the content of the last
\* result of the list that emits it.
C27_MergeOrderIndependent ==
    /\ [][(/\ pc = "merged" /\ pc' = "merged"
           /\ Range(all_results') = Range(all_results)
           /\ NoSharedKeys(all_results)) =>
              /\ final_json' = Nothing <=> final_json = Nothing
              /\ final_json # Nothing =>
                     /\ final_json'.CATEGORIES = final_json.CATEGORIES
                     /\ final_json'.PROCESSING_METADATA.sections_by_category
                            = final_json.PROCESSING_METADATA.sections_by_category]_vars
    /\ []((pc = "merged" /\ final_json # Nothing) =>
              /\ \A cat \in Categories : \A n \in DOMAIN final_json.CATEGORIES[cat] :
                     /\ \E i \in 1..Len(all_results) : n \in SectionKeys(all_results[i])
                     /\ final_json.CATEGORIES[cat][n]
                            = all_results[LastEmitting(all_results, n)].sections.items[n]
              /\ \A cat \in Categories :
                     final_json.PROCESSING_METADATA.sections_by_category[cat]
                         = Cardinality(DOMAIN final_json.CATEGORIES[cat]))

\* three results, two of which emit the same key with different contents, were
\* combined after a reordering or a repetition, and the key carries the
\* content of the later one
C27_Witness ==
    /\ pc = "merged"
    /\ final_json # Nothing
    /\ Len(all_results) = 3
    /\ \E i, j \in 1..3 : \E n \in SectionKeys(all_results[i]) \cap SectionKeys(all_results[j]) :
          /\ i < j
          /\ all_results[i].sections.items[n] # all_results[j].sections.items[n]
          /\ \A cat \in Categories :
                 n \in DOMAIN final_json.CATEGORIES[cat] =>
                     final_json.CATEGORIES[cat][n] = all_results[j].sections.items[n]
          /\ \E cat \in Categories : n \in DOMAIN final_json.CATEGORIES[cat]

----------------------------------------------------------------------------
(* The batch driver of src/proto-3/auto_8k.py: process_all_files submits one *)
(* process_single_file task per file to a ThreadPoolExecutor, and each task  *)
(* runs FinancialDataProcessor.process_file of src/proto-3/8-k_jsonner.py    *)
(* inside "with self.file_lock".  A worker's pc: "idle" (no task), "start"   *)
(* (in process_single_file, before the lock), "read" (lock held, before      *)
(* read_file), "call" (generate_content in flight), "save" (response in      *)
(* hand, before save_json), "verify" (lock released, before the output       *)
(* check), "count" (self.stats[key] loaded, before it is stored back).       *)

MaxWorkers == 2

MaxFiles == 3

Workers == 1..MaxWorkers

IdleWorker == [pc |-> "idle", file |-> 0, response |-> None, key |-> None, loaded |-> 0]

\* what the model can answer: a JSON object, the empty JSON object, or text
\* that is not JSON
Responses == {"json", "empty_json", "malformed"}

BatchInit ==
    /\ \E n \in 2..MaxFiles :
          /\ task_queue = [i \in 1..n |-> i]
          /\ stats = [total_files |-> n, processed_files |-> 0, failed_files |-> 0]
    /\ worker = [w \in Workers |-> IdleWorker]
    /\ file_lock = 0
    /\ written = {}
    /\ document_content = [len |-> 0, breaks |-> {}]
    /\ boundaries = <<>>
    /\ PlanIdle
    /\ DetIdle
    /\ PipeIdle

batchFrame == <<docVars, planVars, detVars, pipeVars>>

\* self.stats[key] += 1, first half: the counter is loaded
Count(w, key) ==
    [worker EXCEPT ![w].pc = "count", ![w].key = key, ![w].loaded = stats[key]]

\* a worker thread of the executor takes the next submitted task
TakeTask(w) ==
    /\ worker[w].pc = "idle"
    /\ task_queue # <<>>
    /\ worker' = [worker EXCEPT ![w].pc = "start", ![w].file = Head(task_queue)]
    /\ task_queue' = Tail(task_queue)
    /\ UNCHANGED <<file_lock, written, stats, batchFrame>>

\* "with self.file_lock:" is entered
AcquireLock(w) ==
    /\ worker[w].pc = "start"
    /\ file_lock = 0
    /\ file_lock' = w
    /\ worker' = [worker EXCEPT ![w].pc = "read"]
    /\ UNCHANGED <<task_queue, written, stats, batchFrame>>

\* process_file, step 1: read_file returns the content
ReadFile(w) ==
    /\ worker[w].pc = "read"
    /\ worker' = [worker EXCEPT ![w].pc = "call"]
    /\ UNCHANGED <<task_queue, file_lock, written, stats, batchFrame>>

\* process_file, step 2: self.model.generate_content returns
ModelAnswers(w) ==
    /\ worker[w].pc = "call"
    /\ \E r \in Responses : worker' = [worker EXCEPT ![w].pc = "save", ![w].response = r]
    /\ UNCHANGED <<task_queue, file_lock, written, stats, batchFrame>>

\* process_file, step 2: generate_content raises; the exception leaves the
\* with block, which releases the lock, and the handler counts a failure
ModelFails(w) ==
    /\ worker[w].pc = "call"
    /\ file_lock' = 0
    /\ worker' = Count(w, "failed_files")
    /\ UNCHANGED <<task_queue, written, stats, batchFrame>>

\* process_file, step 3: save_json writes the output file, or raises on text
\* that is not JSON; the with block is left either way
SaveJson(w) ==
    /\ worker[w].pc = "save"
    /\ file_lock' = 0
    /\ IF worker[w].response = "malformed"
       THEN /\ worker' = Count(w, "failed_files")
            /\ UNCHANGED written
       ELSE /\ worker' = [worker EXCEPT ![w].pc = "verify"]
            /\ written' = written \cup {worker[w].file}
    /\ UNCHANGED <<task_queue, stats, batchFrame>>

\* the output file is read back outside the lock
Verify(w) ==
    /\ worker[w].pc = "verify"
    /\ worker' = Count(w, IF worker[w].file \in written /\ worker[w].response = "json"
                          THEN "processed_files" ELSE "failed_files")
    /\ UNCHANGED <<task_queue, file_lock, written, stats, batchFrame>>

\* self.stats[key] += 1, second half: the sum is stored and the task ends
StoreCount(w) ==
    /\ worker[w].pc = "count"
    /\ stats' = [stats EXCEPT ![worker[w].key] = worker[w].loaded + 1]
    /\ worker' = [worker EXCEPT ![w] = IdleWorker]
    /\ UNCHANGED <<task_queue, file_lock, written, batchFrame>>

BatchNext ==
    \E w \in Workers :
        \/ TakeTask(w)
        \/ AcquireLock(w)
        \/ ReadFile(w)
        \/ ModelAnswers(w)
        \/ ModelFails(w)
        \/ SaveJson(w)
        \/ Verify(w)
        \/ StoreCount(w)

BatchSpec == BatchInit /\ [][BatchNext]_vars

----------------------------------------------------------------------------
(* Claims about the batch driver *)

\* the workers whose model call is in flight
CallsInFlight == {w \in Workers : worker[w].pc = "call"}

\* C17 (as claimed): the lock shared by the workers is held only around
\* file-system writes and not around model calls: a worker whose model call is
\* in flight does not hold file_lock (so that two workers can have a model call
\* in flight at the same time).
C17_LockNotAroundModelCalls ==
    \A w \in CallsInFlight : file_lock # w

\* what the code does instead: at most one model call is in flight
AtMostOneCallInFlight == Cardinality(CallsInFlight) <= 1

\* every submitted task has run to its end
AllWorkersFinished ==
    /\ task_queue = <<>>
    /\ \A w \in Workers : worker[w].pc = "idle"

\* C30 (as claimed): once all workers have finished, processed_files +
\* failed_files equals the number of files submitted to the pool, under every
\* interleaving of the worker threads.
C30_StatsConsistent ==
    AllWorkersFinished =>
        stats.processed_files + stats.failed_files = stats.total_files

====
